---- MODULE Spec2Model ----
(***************************************************************************)
(* The tunnel state machine of talpid-core, centred on ConnectedState      *)
(* (talpid-core/src/tunnel_state_machine/connected_state.rs).              *)
(*                                                                         *)
(* A handler is modelled as an operator from the handler's inputs to the   *)
(* SET of its possible outcomes: one outcome per combination of results    *)
(* the collaborators (firewall, DNS monitor, route manager, split tunnel)  *)
(* return to the calls the handler actually makes.  Each collaborator call *)
(* appends an entry to the step's trace, so that the order of side effects *)
(* inside one handler call is part of the state.                           *)
(***************************************************************************)
EXTENDS Integers, Sequences, FiniteSets, TLC

\* Configuration commands (those that carry a setting) the application sends
\* in one run.
MaxConfigCommands == 1

\* Connection attempts started afresh (Connecting with attempt counter 0) in one run.
MaxSessions == 2

\* Retry ceiling of the Connecting state.
RetryCeiling == 3

VARIABLES
    platform,            \* target_os the daemon was built for
    local_dns_resolver,  \* *LOCAL_DNS_RESOLVER (macOS only)
    state,               \* the driver's single owned state
    shared,              \* SharedTunnelStateValues: the plain fields
    firewall,            \* the policy the firewall collaborator has applied
    dns,                 \* the DNS set last, until a reset of it is requested
    trace,               \* collaborator calls, acks and notification of the last step
    stimulus,            \* the stimulus the last step consumed
    prev,                \* name of the state that handled the last step
    live_tunnels,        \* tunnel processes started whose close event is unresolved
    next_tunnel,         \* identity (interface name) the next started tunnel gets
    sessions,            \* entries into Connecting with attempt counter 0 so far
    commands_seen,       \* configuration commands taken from the command channel so far
    commands_closed,     \* the command channel has yielded None
    teardown             \* teardown calls issued since the current tunnel was started

vars == << platform, local_dns_resolver, state, shared, firewall, dns,
           trace, stimulus, prev, live_tunnels, next_tunnel, sessions, commands_seen,
           commands_closed,
           teardown >>

\* Requests sent through HttpsConnectorWithSniHandle in one run.
MaxRequests == 2

\* Invocations of HttpsConnectorWithSni::call in one run.
MaxCalls == 1

VARIABLES
    rx,                  \* requests sent by the handles, not yet received by the task
    requests_sent,       \* requests sent so far
    proxy_config,        \* HttpsConnectorWithSniInner::proxy_config
    stream_handles,      \* HttpsConnectorWithSniInner::stream_handles
    closed,              \* the stream handles that are closed
    calls,               \* the futures returned by call, by invocation, each with a
                         \* note of whether a request was handled after its
                         \* connection was established
    next_handle,         \* identity the next created stream handle gets
    connector_event      \* the request the task processed in the last step, if it was the task's

connector_vars == << rx, requests_sent, proxy_config, stream_handles, closed, calls,
                     next_handle, connector_event >>

\* Stimuli sent to each of ConnectedState's two channels in one run.
MaxSends == 2

VARIABLES
    commands,            \* the command channel: what was sent and not yet received
    tunnel_events,       \* the tunnel-event channel: what was sent and not yet received
    close_event,         \* the tunnel close event: pending, or what it resolved to
    sent,                \* everything sent so far, by source, in sending order
    delivered            \* the stimuli handle_event calls have consumed, in order

select_vars == << commands, tunnel_events, close_event, sent, delivered >>

\* Tunnel addresses in the Config given to NetlinkTunnel::new.
MaxAddresses == 2

\* WireGuard devices created in one run.
MaxDevices == 4

\* Addresses in one answer of the DNS resolver.
MaxAnswers == 2

VARIABLES
    cache_file,          \* the file CURRENT_CONFIG_FILENAME in the cache directory
    cache_read,          \* the last read of it: the function, what it found, what it returned
    resolve_uri,         \* the Uri given to resolve_address
    dns_answer,          \* what the DnsResolver answers when asked
    resolve_result,      \* what resolve_address returned and whether it asked the resolver
    devices,             \* interface indices of the WireGuard devices that exist
    netlink_tunnel,      \* interface_index of the NetlinkTunnel that exists, 0 if none
    next_ifindex,        \* interface index the next created device gets
    netlink_last         \* the last NetlinkTunnel operation: its calls and its result

cache_vars == << cache_file, cache_read >>

resolve_vars == << resolve_uri, dns_answer, resolve_result >>

netlink_vars == << devices, netlink_tunnel, next_ifindex, netlink_last >>

\* What a step of the tunnel state machine leaves alone.
outside_tunnel == << connector_vars, select_vars, cache_vars, resolve_vars, netlink_vars >>

\* What a step of the API connector leaves alone.
outside_connector == << vars, select_vars, cache_vars, resolve_vars, netlink_vars >>

\* No cache file written and none read.
CacheNew ==
    /\ cache_file = [read |-> "NotFound", text |-> "none"]
    /\ cache_read = [op |-> "none", file |-> [read |-> "none", text |-> "none"],
                     result |-> [ok |-> FALSE, value |-> "none"]]

\* resolve_address not called.
ResolveNotCalled ==
    resolve_result = [done |-> FALSE, ok |-> FALSE, ip |-> "none", port |-> 0,
                      error |-> "none", resolver_called |-> FALSE]

ResolveNew ==
    /\ resolve_uri = [host |-> "none", port |-> [some |-> FALSE, port |-> 0]]
    /\ dns_answer = [ok |-> FALSE, addrs |-> << >>]
    /\ ResolveNotCalled

\* No device, no NetlinkTunnel and no operation yet.
NetlinkNew ==
    /\ devices = {}
    /\ netlink_tunnel = 0
    /\ next_ifindex = 1
    /\ netlink_last = [op |-> "none", calls |-> << >>, result |-> "none", interface_index |-> 0]


\* The tunnel close event while the tunnel runs.
PendingClose == [kind |-> "Pending", arg |-> "none"]

\* Both channels empty and the close event pending, nothing sent or consumed.
ChannelsNew ==
    /\ commands = << >>
    /\ tunnel_events = << >>
    /\ close_event = PendingClose
    /\ sent = [command |-> << >>, event |-> << >>, close |-> << >>]
    /\ delivered = << >>

\* enum InnerConnectionMode
DirectMode == [kind |-> "Direct", peer |-> "none"]

CallIds == 1..MaxCalls

\* A call future that has not been created: no mode read, no stream.
NoCall == [pc |-> "idle", mode |-> [kind |-> "none", peer |-> "none"], notified |-> FALSE,
           handle |-> 0, reset_after |-> FALSE]

NoRequest == [kind |-> "none", config |-> "none"]

NoConnectorEvent == [op |-> "none", request |-> NoRequest, handles |-> << >>]

\* HttpsConnectorWithSni::new: no stream handles, a direct connection mode,
\* an empty request channel.
ConnectorNew ==
    /\ rx = << >>
    /\ requests_sent = 0
    /\ proxy_config = DirectMode
    /\ stream_handles = << >>
    /\ closed = {}
    /\ calls = [c \in CallIds |-> NoCall]
    /\ next_handle = 1
    /\ connector_event = NoConnectorEvent

---------------------------------------------------------------------------
\* Value domains

Platforms == {"linux", "windows", "macos", "android"}

\* The interface names the tunnel monitor hands out, in turn.
Interfaces == {1, 2}

DnsConfigs == {"default", "custom"}

Endpoints == {"api"}

PathLists == {"apps"}

Connectivities == {"Online", "Offline"}

\* Reasons a Block command may carry.
BlockReasons == {"AuthFailed"}

\* Fatal causes the tunnel monitor may report through the close event.
TunnelCauses == {"TunnelParameterError"}

\* Results of Firewall::apply_policy.
FwResults == {"Ok", "ApplyingConnectedPolicy", "Other"}

\* Results of a fallible collaborator call without a typed error.
OkErr == {"Ok", "Err"}

\* Results of split_tunnel set_exclude_paths on macOS.
SplitResults == {"Unchanged", "InterfaceChanged", "Err"}

NoAfter == [kind |-> "None", n |-> 0, cause |-> "none"]

Nothing == [kind |-> "Nothing", n |-> 0, cause |-> "none"]

Reconnect(n) == [kind |-> "Reconnect", n |-> n, cause |-> "none"]

Block(cause) == [kind |-> "Block", n |-> 0, cause |-> cause]

NoMetadata == [interface |-> 0]

NoParams ==
    [id |-> "none", type |-> "none", obfuscation |-> "none", proxy |-> FALSE,
     exit_peer |-> "none"]

TunnelParams ==
    { [id |-> "wireguard", type |-> "Wireguard", obfuscation |-> "none", proxy |-> FALSE,
       exit_peer |-> "none"],
      [id |-> "wireguard-obfuscated-multihop", type |-> "Wireguard", obfuscation |-> "udp2tcp",
       proxy |-> FALSE, exit_peer |-> "exit"],
      [id |-> "openvpn-proxy", type |-> "OpenVpn", obfuscation |-> "none", proxy |-> TRUE,
       exit_peer |-> "none"] }

NoDns == [config |-> "none", gateways |-> 0]

NoEndpoint == [address |-> "none", protocol |-> "none"]

NoPolicy ==
    [kind |-> "None", peer_endpoint |-> [endpoint |-> NoEndpoint, clients |-> "none"],
     tunnel |-> NoMetadata, allow_lan |-> FALSE, dns_config |-> NoDns,
     redirect_interface |-> "none"]

\* The commands TunnelCommand has on each platform.
CommandsOf(p) ==
    { [kind |-> "Connect", arg |-> "none"], [kind |-> "Disconnect", arg |-> "none"] }
    \cup { [kind |-> "Block", arg |-> r] : r \in BlockReasons }
    \cup { [kind |-> "AllowLan", arg |-> b] : b \in {"true", "false"} }
    \cup { [kind |-> "Dns", arg |-> d] : d \in DnsConfigs }
    \cup { [kind |-> "Connectivity", arg |-> c] : c \in Connectivities }
    \cup (IF p # "android"
          THEN { [kind |-> "AllowEndpoint", arg |-> e] : e \in Endpoints }
               \cup { [kind |-> "BlockWhenDisconnected", arg |-> b] : b \in {"true", "false"} }
          ELSE { [kind |-> "BypassSocket", arg |-> "fd"] })
    \cup (IF p # "linux"
          THEN { [kind |-> "SetExcludedApps", arg |-> l] : l \in PathLists }
          ELSE {})

\* commands.next() yielding None.
ChannelClosed == [kind |-> "None", arg |-> "none"]

Bool(s) == s = "true"

\* The commands that carry a setting.
SettingCommands == {"AllowLan", "Dns", "AllowEndpoint", "BlockWhenDisconnected",
                    "Connectivity", "SetExcludedApps", "BypassSocket"}

\* The commands that carry a one-shot completion channel.
AckedCommands == {"AllowLan", "Dns", "AllowEndpoint", "BlockWhenDisconnected", "SetExcludedApps"}

---------------------------------------------------------------------------
\* The world a handler acts on: the shared context, what the collaborators
\* hold, and the trace of the calls made so far in this step.

World == [shared |-> shared, firewall |-> firewall, dns |-> dns,
          trace |-> << >>, teardown |-> teardown]

Log(w, op, arg, res) ==
    [w EXCEPT !.trace = Append(@, [op |-> op, arg |-> arg, res |-> res])]

LastRes(w) == w.trace[Len(w.trace)].res

Failed(w) == LastRes(w) # "Ok"

Mark(w, call) == [w EXCEPT !.teardown = @ \cup {call}]

NoDnsState == [mode |-> "unset", interface |-> 0, config |-> NoDns]

---------------------------------------------------------------------------
\* Collaborators.  Each call yields one world per result it may return.

\* Firewall::apply_policy: replaces the whole policy, or fails and leaves it.
\* Off Windows every error is mapped to FirewallPolicyError::Generic, so one
\* failing result stands for all of them there.
apply_policy(w, policy) ==
    { Log(IF res = "Ok" THEN [w EXCEPT !.firewall = policy] ELSE w,
          "apply_policy", policy, res)
      : res \in IF platform = "windows" THEN FwResults ELSE {"Ok", "Other"} }

\* DnsMonitor::set
dns_monitor_set(w, interface, config) ==
    { Log(IF res = "Ok"
          THEN [w EXCEPT !.dns = [mode |-> "set", interface |-> interface, config |-> config]]
          ELSE w,
          "dns_monitor.set", config, res)
      : res \in OkErr }

\* The filtering resolver's enable_forward (infallible).
enable_forward(w, config) ==
    { Log([w EXCEPT !.dns = [mode |-> "forward", interface |-> 0, config |-> config]],
          "enable_forward", config, "Ok") }

\* DnsMonitor::reset_before_interface_removal
reset_before_interface_removal(w) ==
    { Log(Mark([w EXCEPT !.dns = NoDnsState], "dns_reset"),
          "dns_monitor.reset_before_interface_removal", "none", res)
      : res \in OkErr }

\* The filtering resolver's disable_forward (infallible).
disable_forward(w) ==
    { Log(Mark([w EXCEPT !.dns = NoDnsState], "dns_reset"), "disable_forward", "none", "Ok") }

\* RouteManager::clear_routes
clear_routes(w) ==
    { Log(Mark(w, "clear_routes"), "clear_routes", "none", res)
      : res \in OkErr }

\* RouteManager::clear_routing_rules (Linux)
clear_routing_rules(w) ==
    { Log(w, "clear_routing_rules", "none", res) : res \in OkErr }

\* oneshot::Sender::send on a command's completion channel.
complete_tx_send(w, command) == Log(w, "complete_tx.send", command.kind, "Ok")

---------------------------------------------------------------------------
\* States, transitions and consequences

StateRecord(name, metadata, params, tunnel, close_tx, attempt, after, cause) ==
    [name |-> name, metadata |-> metadata, tunnel_parameters |-> params,
     tunnel_close_event |-> tunnel, tunnel_close_tx |-> close_tx,
     retry_attempt |-> attempt, after_disconnect |-> after, block_reason |-> cause]

NoTunnelEndpoint == [address |-> "none", protocol |-> "none", tunnel_interface |-> 0]

NoTransition == [name |-> "none", endpoint |-> NoTunnelEndpoint, after |-> NoAfter, cause |-> "none"]

Transition(name, endpoint, after, cause) ==
    [name |-> name, endpoint |-> endpoint, after |-> after, cause |-> cause]

Entered(st, w, transition) == [state |-> st, w |-> w, transition |-> transition]

\* EventConsequence::NewState over every outcome of an enter call.
NewState(entered) ==
    { [kind |-> "NewState", state |-> e.state, w |-> e.w, transition |-> e.transition]
      : e \in entered }

\* EventConsequence::SameState
SameState(self, w) ==
    { [kind |-> "SameState", state |-> self, w |-> w, transition |-> NoTransition] }

---------------------------------------------------------------------------
\* The states ConnectedState hands over to.  Their entry functions are called
\* by connected_state.rs with the argument lists modelled here.  No failure
\* path is described for the collaborator calls these states make, so the
\* calls are taken to succeed.

Succeeded(worlds) == { x \in worlds : ~Failed(x) }

BlockedPolicy ==
    [NoPolicy EXCEPT !.kind = "Blocked"]

ConnectingPolicy(params, allow_lan) ==
    [NoPolicy EXCEPT !.kind = "Connecting", !.allow_lan = allow_lan]

\* DisconnectingState::enter(tunnel_close_tx, tunnel_close_event, after_disconnect):
\* signals the tunnel to stop and keeps the close event.  It is not given the
\* shared context, so it calls no collaborator of it.
DisconnectingState_enter(w, tunnel_close_tx, tunnel_close_event, after_disconnect) ==
    { Entered(StateRecord("Disconnecting", NoMetadata, NoParams, tunnel_close_event, 0,
                          0, after_disconnect, "none"),
              Log(w, "tunnel_close_tx.send", tunnel_close_tx, "Ok"),
              Transition("Disconnecting", NoTunnelEndpoint, after_disconnect, "none")) }

\* ErrorState::enter(shared_values, block_reason): applies the blocking policy.
ErrorState_enter(w, block_reason) ==
    { Entered(StateRecord("Error", NoMetadata, NoParams, 0, 0, 0, NoAfter, block_reason),
              w1,
              Transition("Error", NoTunnelEndpoint, NoAfter, block_reason))
      : w1 \in Succeeded(apply_policy(w, BlockedPolicy)) }

\* ConnectingState::enter(shared_values, retry_attempt): applies the restrictive
\* connecting policy and starts a new tunnel for the generated parameters.
ConnectingState_enter(w, retry_attempt) ==
    UNION {
      { Entered(StateRecord("Connecting", NoMetadata, params, next_tunnel, next_tunnel,
                            retry_attempt, NoAfter, "none"),
                Log([w1 EXCEPT !.teardown = {}], "start_tunnel", next_tunnel, params.id),
                Transition("Connecting", NoTunnelEndpoint, NoAfter, "none"))
        : w1 \in Succeeded(apply_policy(w, ConnectingPolicy(params, w.shared.allow_lan))) }
      : params \in TunnelParams }

\* DisconnectedState::enter(shared_values): blocks while idle when
\* block_when_disconnected is set, and otherwise removes the policy.
DisconnectedState_enter(w) ==
    { Entered(StateRecord("Disconnected", NoMetadata, NoParams, 0, 0, 0, NoAfter, "none"),
              w1,
              Transition("Disconnected", NoTunnelEndpoint, NoAfter, "none"))
      : w1 \in IF w.shared.block_when_disconnected
               THEN Succeeded(apply_policy(w, BlockedPolicy))
               ELSE { Log([w EXCEPT !.firewall = NoPolicy], "reset_policy", "none", "Ok") } }

---------------------------------------------------------------------------
\* talpid-types: TunnelParameters

\* wireguard::ConnectionConfig::get_endpoint
get_endpoint(params) == [address |-> "entry_peer", protocol |-> "Udp"]

\* ObfuscatorConfig::get_obfuscator_endpoint
get_obfuscator_endpoint(params) == [address |-> "obfuscator", protocol |-> "Tcp"]

\* get_next_hop_endpoint preferring the exit peer of a multihop connection.
get_next_hop_endpoint_ExitPeer(params) ==
    IF params.exit_peer # "none"
    THEN [address |-> "exit_peer", protocol |-> "Udp"]
    ELSE IF params.obfuscation # "none"
         THEN get_obfuscator_endpoint(params)
         ELSE get_endpoint(params)

\* wireguard::TunnelParameters::get_next_hop_endpoint
get_next_hop_endpoint(params) ==
    IF params.obfuscation # "none"
    THEN get_obfuscator_endpoint(params)
    ELSE get_endpoint(params)

\* net::TunnelParameters::get_openvpn_local_proxy_settings(..).is_some()
has_openvpn_local_proxy_settings(params) ==
    params.type = "OpenVpn" /\ params.proxy

\* net::TunnelParameters::get_tunnel_endpoint: the tunnel peer as shown to
\* the application.
get_tunnel_endpoint(params) ==
    [address |-> IF params.exit_peer # "none" THEN "exit_peer" ELSE "entry_peer",
     protocol |-> "Udp", tunnel_interface |-> 0]

\* DnsConfig::resolve against the tunnel's gateways.
resolve(dns_config, gateways) ==
    [config |-> dns_config, gateways |-> IF dns_config = "default" THEN gateways ELSE 0]

---------------------------------------------------------------------------
\* ConnectedState (connected_state.rs)

\* The map_err closure of set_firewall_policy: the FirewallPolicyError a failed
\* apply_policy is turned into, wrapped in ErrorStateCause::SetFirewallPolicyError.
FirewallPolicyError(res) ==
    IF platform = "windows" /\ res = "ApplyingConnectedPolicy"
    THEN "SetFirewallPolicyError(Locked)"
    ELSE "SetFirewallPolicyError(Generic)"

\* ConnectedState::resolve_dns
resolve_dns(metadata, sv) == resolve(sv.dns_config, metadata.interface)

\* ConnectedState::get_firewall_policy
get_firewall_policy(self, sv) ==
    LET endpoint == get_next_hop_endpoint(self.tunnel_parameters)
        clients == IF platform = "windows"
                   THEN "RelayClient"
                   ELSE IF has_openvpn_local_proxy_settings(self.tunnel_parameters)
                        THEN "All"
                        ELSE "Root"
    IN  [kind |-> "Connected",
         peer_endpoint |-> [endpoint |-> endpoint, clients |-> clients],
         tunnel |-> self.metadata,
         allow_lan |-> sv.allow_lan,
         dns_config |-> IF platform # "android"
                        THEN resolve_dns(self.metadata, sv)
                        ELSE NoDns,
         redirect_interface |-> IF platform = "macos" THEN sv.redirect_interface ELSE "none"]

\* ConnectedState::set_firewall_policy
set_firewall_policy(self, w) ==
    apply_policy(w, get_firewall_policy(self, w.shared))

\* ConnectedState::set_dns
set_dns(self, w) ==
    LET dns_config == resolve_dns(self.metadata, w.shared)
    IN  IF platform # "macos" \/ ~local_dns_resolver
        THEN dns_monitor_set(w, self.metadata.interface, dns_config)
        ELSE enable_forward(w, dns_config)

\* ConnectedState::reset_dns
reset_dns(w) ==
    IF platform # "macos" \/ ~local_dns_resolver
    THEN reset_before_interface_removal(w)
    ELSE disable_forward(w)

\* ConnectedState::reset_routes
reset_routes(w) ==
    IF platform = "linux"
    THEN UNION { clear_routing_rules(w1) : w1 \in clear_routes(w) }
    ELSE clear_routes(w)

\* enter with the result of set_firewall_policy dropped.
enter_IgnoringFirewallError(w, metadata, tunnel_parameters, tunnel_close_event, tunnel_close_tx) ==
    LET connected_state ==
            StateRecord("Connected", metadata, tunnel_parameters, tunnel_close_event,
                        tunnel_close_tx, 0, NoAfter, "none")
        tunnel_endpoint ==
            [get_tunnel_endpoint(tunnel_parameters)
                EXCEPT !.tunnel_interface = metadata.interface]
    IN  UNION {
          UNION {
            IF Failed(w2)
            THEN DisconnectingState_enter(w2, tunnel_close_tx, tunnel_close_event,
                                          Block("SetDnsError"))
            ELSE { Entered(connected_state, w2,
                           Transition("Connected", tunnel_endpoint, NoAfter, "none")) }
            : w2 \in set_dns(connected_state, w1) }
          : w1 \in set_firewall_policy(connected_state, w) }

\* enter going to the error state itself when the firewall fails, leaving the tunnel.
enter_FirewallErrorToError(w, metadata, tunnel_parameters, tunnel_close_event, tunnel_close_tx) ==
    LET connected_state ==
            StateRecord("Connected", metadata, tunnel_parameters, tunnel_close_event,
                        tunnel_close_tx, 0, NoAfter, "none")
        tunnel_endpoint ==
            [get_tunnel_endpoint(tunnel_parameters)
                EXCEPT !.tunnel_interface = metadata.interface]
    IN  UNION {
          IF Failed(w1)
          THEN ErrorState_enter(w1, FirewallPolicyError(LastRes(w1)))
          ELSE UNION {
                 IF Failed(w2)
                 THEN DisconnectingState_enter(w2, tunnel_close_tx, tunnel_close_event,
                                               Block("SetDnsError"))
                 ELSE { Entered(connected_state, w2,
                                Transition("Connected", tunnel_endpoint, NoAfter, "none")) }
                 : w2 \in set_dns(connected_state, w1) }
          : w1 \in set_firewall_policy(connected_state, w) }

\* enter with the result of set_dns dropped.
enter_IgnoringDnsError(w, metadata, tunnel_parameters, tunnel_close_event, tunnel_close_tx) ==
    LET connected_state ==
            StateRecord("Connected", metadata, tunnel_parameters, tunnel_close_event,
                        tunnel_close_tx, 0, NoAfter, "none")
        tunnel_endpoint ==
            [get_tunnel_endpoint(tunnel_parameters)
                EXCEPT !.tunnel_interface = metadata.interface]
    IN  UNION {
          IF Failed(w1)
          THEN DisconnectingState_enter(w1, tunnel_close_tx, tunnel_close_event,
                                        Block(FirewallPolicyError(LastRes(w1))))
          ELSE { Entered(connected_state, w2,
                         Transition("Connected", tunnel_endpoint, NoAfter, "none"))
                 : w2 \in set_dns(connected_state, w1) }
          : w1 \in set_firewall_policy(connected_state, w) }

\* ConnectedState::enter
enter(w, metadata, tunnel_parameters, tunnel_close_event, tunnel_close_tx) ==
    LET connected_state ==
            StateRecord("Connected", metadata, tunnel_parameters, tunnel_close_event,
                        tunnel_close_tx, 0, NoAfter, "none")
        tunnel_endpoint ==
            [get_tunnel_endpoint(tunnel_parameters)
                EXCEPT !.tunnel_interface = metadata.interface]
    IN  UNION {
          IF Failed(w1)
          THEN DisconnectingState_enter(w1, connected_state.tunnel_close_tx,
                   connected_state.tunnel_close_event,
                   Block(FirewallPolicyError(LastRes(w1))))
          ELSE UNION {
                 IF Failed(w2)
                 THEN DisconnectingState_enter(w2, connected_state.tunnel_close_tx,
                          connected_state.tunnel_close_event, Block("SetDnsError"))
                 ELSE { Entered(connected_state, w2,
                                Transition("Connected", tunnel_endpoint, NoAfter, "none")) }
                 : w2 \in set_dns(connected_state, w1) }
          : w1 \in set_firewall_policy(connected_state, w) }

\* disconnect giving up the route clearing when the DNS reset fails.
disconnect_AbortingOnResetError(self, w, after_disconnect) ==
    UNION { IF Failed(w1)
            THEN NewState(DisconnectingState_enter(w1, self.tunnel_close_tx,
                              self.tunnel_close_event, after_disconnect))
            ELSE UNION { NewState(DisconnectingState_enter(w2, self.tunnel_close_tx,
                                      self.tunnel_close_event, after_disconnect))
                         : w2 \in reset_routes(w1) }
            : w1 \in reset_dns(w) }

\* ConnectedState::disconnect
disconnect(self, w, after_disconnect) ==
    UNION { UNION { NewState(DisconnectingState_enter(w2, self.tunnel_close_tx,
                                 self.tunnel_close_event, after_disconnect))
                    : w2 \in reset_routes(w1) }
            : w1 \in reset_dns(w) }

\* Appends the completion-channel send to every consequence of a set.
ThenSend(consequences, command) ==
    { [c EXCEPT !.w = complete_tx_send(c.w, command)] : c \in consequences }

\* SharedTunnelStateValues::set_allow_lan stores the flag; it returns whether the
\* value changed, which the callers here compute as w.shared.allow_lan # allow_lan.
set_allow_lan(w, allow_lan) == [w EXCEPT !.shared.allow_lan = allow_lan]

\* SharedTunnelStateValues::set_dns_config stores the servers; it returns whether
\* they changed, which the callers here compute as w.shared.dns_config # servers.
set_dns_config(w, servers) == [w EXCEPT !.shared.dns_config = servers]

\* The AllowLan arm staying Connected when the firewall re-apply fails.
HandleAllowLan_IgnoringError(self, command, w) ==
    LET allow_lan == Bool(command.arg)
        w0 == set_allow_lan(w, allow_lan)
        consequence ==
            IF w.shared.allow_lan # allow_lan
            THEN IF platform = "android"
                 THEN disconnect(self, w0, Reconnect(0))
                 ELSE UNION { SameState(self, w1) : w1 \in set_firewall_policy(self, w0) }
            ELSE SameState(self, w0)
    IN  ThenSend(consequence, command)

\* The AllowLan arm re-applying the policy whether or not the value changed.
HandleAllowLan_AlwaysApplying(self, command, w) ==
    LET allow_lan == Bool(command.arg)
        w0 == set_allow_lan(w, allow_lan)
        consequence ==
            IF platform = "android"
            THEN disconnect(self, w0, Reconnect(0))
            ELSE UNION { IF ~Failed(w1)
                         THEN SameState(self, w1)
                         ELSE disconnect(self, w1, Block(FirewallPolicyError(LastRes(w1))))
                         : w1 \in set_firewall_policy(self, w0) }
    IN  ThenSend(consequence, command)

\* handle_commands, arm TunnelCommand::AllowLan
HandleAllowLan(self, command, w) ==
    LET allow_lan == Bool(command.arg)
        w0 == set_allow_lan(w, allow_lan)
        consequence ==
            IF w.shared.allow_lan # allow_lan
            THEN IF platform = "android"
                 THEN disconnect(self, w0, Reconnect(0))
                 ELSE UNION { IF ~Failed(w1)
                              THEN SameState(self, w1)
                              ELSE disconnect(self, w1, Block(FirewallPolicyError(LastRes(w1))))
                              : w1 \in set_firewall_policy(self, w0) }
            ELSE SameState(self, w0)
    IN  ThenSend(consequence, command)

\* The AllowEndpoint arm re-applying the Connected policy after storing the endpoint.
HandleAllowEndpoint_Applying(self, command, w) ==
    ThenSend(UNION { IF ~Failed(w1)
                     THEN SameState(self, w1)
                     ELSE disconnect(self, w1, Block(FirewallPolicyError(LastRes(w1))))
                     : w1 \in set_firewall_policy(
                                 self, [w EXCEPT !.shared.allowed_endpoint = command.arg]) },
             command)

\* handle_commands, arm TunnelCommand::AllowEndpoint
HandleAllowEndpoint(self, command, w) ==
    ThenSend(SameState(self, [w EXCEPT !.shared.allowed_endpoint = command.arg]), command)

\* The Dns arm refreshing the firewall and leaving the DNS settings as they were.
HandleDns_FirewallOnly(self, command, w) ==
    LET servers == command.arg
        w0 == set_dns_config(w, servers)
    IN  IF w.shared.dns_config # servers
        THEN IF platform = "android"
             THEN ThenSend(disconnect(self, w0, Reconnect(0)), command)
             ELSE UNION {
                    IF Failed(w1)
                    THEN disconnect(self, w1, Block(FirewallPolicyError(LastRes(w1))))
                    ELSE ThenSend(SameState(self, w1), command)
                    : w1 \in set_firewall_policy(self, w0) }
        ELSE ThenSend(SameState(self, w0), command)

\* The Dns arm reporting a DNS failure with the firewall's cause.
HandleDns_WrongCause(self, command, w) ==
    LET servers == command.arg
        w0 == set_dns_config(w, servers)
    IN  IF w.shared.dns_config # servers
        THEN IF platform = "android"
             THEN ThenSend(disconnect(self, w0, Reconnect(0)), command)
             ELSE UNION {
                    IF Failed(w1)
                    THEN disconnect(self, w1, Block(FirewallPolicyError(LastRes(w1))))
                    ELSE ThenSend(
                           UNION { IF ~Failed(w2)
                                   THEN SameState(self, w2)
                                   ELSE disconnect(self, w2,
                                                   Block(FirewallPolicyError(LastRes(w2))))
                                   : w2 \in set_dns(self, w1) },
                           command)
                    : w1 \in set_firewall_policy(self, w0) }
        ELSE ThenSend(SameState(self, w0), command)

\* The Dns arm applying DNS before the firewall.
HandleDns_DnsFirst(self, command, w) ==
    LET servers == command.arg
        w0 == set_dns_config(w, servers)
    IN  IF w.shared.dns_config # servers /\ platform # "android"
        THEN UNION {
               IF Failed(w1)
               THEN ThenSend(disconnect(self, w1, Block("SetDnsError")), command)
               ELSE UNION { IF Failed(w2)
                            THEN disconnect(self, w2, Block(FirewallPolicyError(LastRes(w2))))
                            ELSE ThenSend(SameState(self, w2), command)
                            : w2 \in set_firewall_policy(self, w1) }
               : w1 \in set_dns(self, w0) }
        ELSE IF w.shared.dns_config # servers
             THEN ThenSend(disconnect(self, w0, Reconnect(0)), command)
             ELSE ThenSend(SameState(self, w0), command)

\* handle_commands, arm TunnelCommand::Dns.  The firewall-failure branch returns
\* from the handler before the completion channel is sent on.
HandleDns(self, command, w) ==
    LET servers == command.arg
        w0 == set_dns_config(w, servers)
    IN  IF w.shared.dns_config # servers
        THEN IF platform = "android"
             THEN ThenSend(disconnect(self, w0, Reconnect(0)), command)
             ELSE UNION {
                    IF Failed(w1)
                    THEN disconnect(self, w1, Block(FirewallPolicyError(LastRes(w1))))
                    ELSE ThenSend(
                           UNION { IF ~Failed(w2)
                                   THEN SameState(self, w2)
                                   ELSE disconnect(self, w2, Block("SetDnsError"))
                                   : w2 \in set_dns(self, w1) },
                           command)
                    : w1 \in set_firewall_policy(self, w0) }
        ELSE ThenSend(SameState(self, w0), command)

\* The BlockWhenDisconnected arm acknowledging without storing the flag.
HandleBlockWhenDisconnected_NotStoring(self, command, w) ==
    ThenSend(SameState(self, w), command)

\* handle_commands, arm TunnelCommand::BlockWhenDisconnected
HandleBlockWhenDisconnected(self, command, w) ==
    ThenSend(SameState(self, [w EXCEPT !.shared.block_when_disconnected = Bool(command.arg)]),
             command)

\* The Connectivity arm acting on the status without storing it.
HandleConnectivity_NotStoring(self, command, w) ==
    IF command.arg = "Offline"
    THEN disconnect(self, w, Block("IsOffline"))
    ELSE SameState(self, w)

\* The Connectivity arm disconnecting for good, with no block, when offline.
HandleConnectivity_OfflineNothing(self, command, w) ==
    LET w0 == [w EXCEPT !.shared.connectivity = command.arg]
    IN  IF command.arg = "Offline"
        THEN disconnect(self, w0, Nothing)
        ELSE SameState(self, w0)

\* The Connectivity arm producing no consequence for a status that is not offline.
HandleConnectivity_Ignoring(self, command, w) ==
    LET w0 == [w EXCEPT !.shared.connectivity = command.arg]
    IN  IF command.arg = "Offline"
        THEN disconnect(self, w0, Block("IsOffline"))
        ELSE {}

\* The Connectivity arm retrying instead of blocking when offline.
HandleConnectivity_Reconnecting(self, command, w) ==
    LET w0 == [w EXCEPT !.shared.connectivity = command.arg]
    IN  IF command.arg = "Offline"
        THEN disconnect(self, w0, Reconnect(0))
        ELSE SameState(self, w0)

\* handle_commands, arm TunnelCommand::Connectivity
HandleConnectivity(self, command, w) ==
    LET w0 == [w EXCEPT !.shared.connectivity = command.arg]
    IN  IF command.arg = "Offline"
        THEN disconnect(self, w0, Block("IsOffline"))
        ELSE SameState(self, w0)

\* The Connect arm treating Connect as already satisfied in Connected.
HandleConnect_Staying(self, command, w) == SameState(self, w)

\* handle_commands, arm TunnelCommand::Connect
HandleConnect(self, command, w) == disconnect(self, w, Reconnect(0))

\* handle_commands, arm TunnelCommand::Disconnect | None
HandleDisconnect(self, command, w) == disconnect(self, w, Nothing)

\* The Block arm blocking with a fixed cause in place of the given reason.
HandleBlock_DroppingReason(self, command, w) == disconnect(self, w, Block("IsOffline"))

\* handle_commands, arm TunnelCommand::Block
HandleBlock(self, command, w) == disconnect(self, w, Block(command.arg))

\* SharedTunnelStateValues::bypass_socket (Android): answers on done_tx.
bypass_socket(w, command) == complete_tx_send(w, command)

\* handle_commands, arm TunnelCommand::BypassSocket (Android)
HandleBypassSocket(self, command, w) == SameState(self, bypass_socket(w, command))

\* SharedTunnelStateValues::exclude_paths (Windows): stores the paths and
\* answers on result_tx.
exclude_paths(w, command) ==
    complete_tx_send([w EXCEPT !.shared.excluded_paths = command.arg], command)

\* SharedTunnelStateValues::set_exclude_paths (macOS): Ok(interface_changed) or Err.
set_exclude_paths(w, paths) ==
    { Log(CASE res = "Unchanged" -> [w EXCEPT !.shared.excluded_paths = paths]
            [] res = "InterfaceChanged" ->
                   [w EXCEPT !.shared.excluded_paths = paths,
                             !.shared.redirect_interface =
                                 IF @ = "none" THEN "utun" ELSE "none"]
            [] res = "Err" -> w,
          "set_exclude_paths", paths, res)
      : res \in SplitResults }

\* handle_commands, arms TunnelCommand::SetExcludedApps (Windows, Android, macOS)
HandleSetExcludedApps(self, command, w) ==
    CASE platform = "windows" -> SameState(self, exclude_paths(w, command))
      [] platform = "android" ->
            LET w0 == [w EXCEPT !.shared.excluded_paths = command.arg]
            IN  IF w.shared.excluded_paths # command.arg
                THEN disconnect(self, complete_tx_send(w0, command), Reconnect(0))
                ELSE SameState(self, complete_tx_send(w0, command))
      [] platform = "macos" ->
            UNION {
              IF LastRes(w1) = "Err"
              THEN disconnect(self, complete_tx_send(w1, command), Block("SplitTunnelError"))
              ELSE LET w2 == complete_tx_send(w1, command)
                   IN  IF LastRes(w1) = "InterfaceChanged"
                       THEN UNION { IF Failed(w3)
                                    THEN disconnect(self, w3,
                                             Block(FirewallPolicyError(LastRes(w3))))
                                    ELSE SameState(self, w3)
                                    : w3 \in set_firewall_policy(self, w2) }
                       ELSE SameState(self, w2)
              : w1 \in set_exclude_paths(w, command.arg) }

\* handle_commands reconnecting, instead of stopping, when the command channel
\* closes.
handle_commands_ClosureReconnects(self, command, w) ==
    CASE command.kind = "AllowLan" -> HandleAllowLan(self, command, w)
      [] command.kind = "AllowEndpoint" /\ platform # "android" ->
            HandleAllowEndpoint(self, command, w)
      [] command.kind = "Dns" -> HandleDns(self, command, w)
      [] command.kind = "BlockWhenDisconnected" /\ platform # "android" ->
            HandleBlockWhenDisconnected(self, command, w)
      [] command.kind = "Connectivity" -> HandleConnectivity(self, command, w)
      [] command.kind \in {"Connect", "None"} -> HandleConnect(self, command, w)
      [] command.kind = "Disconnect" -> HandleDisconnect(self, command, w)
      [] command.kind = "Block" -> HandleBlock(self, command, w)
      [] command.kind = "BypassSocket" /\ platform = "android" ->
            HandleBypassSocket(self, command, w)
      [] command.kind = "SetExcludedApps" /\ platform \in {"windows", "android", "macos"} ->
            HandleSetExcludedApps(self, command, w)

\* ConnectedState::handle_commands
handle_commands(self, command, w) ==
    CASE command.kind = "AllowLan" -> HandleAllowLan(self, command, w)
      [] command.kind = "AllowEndpoint" /\ platform # "android" ->
            HandleAllowEndpoint(self, command, w)
      [] command.kind = "Dns" -> HandleDns(self, command, w)
      [] command.kind = "BlockWhenDisconnected" /\ platform # "android" ->
            HandleBlockWhenDisconnected(self, command, w)
      [] command.kind = "Connectivity" -> HandleConnectivity(self, command, w)
      [] command.kind = "Connect" -> HandleConnect(self, command, w)
      [] command.kind \in {"Disconnect", "None"} -> HandleDisconnect(self, command, w)
      [] command.kind = "Block" -> HandleBlock(self, command, w)
      [] command.kind = "BypassSocket" /\ platform = "android" ->
            HandleBypassSocket(self, command, w)
      [] command.kind = "SetExcludedApps" /\ platform \in {"windows", "android", "macos"} ->
            HandleSetExcludedApps(self, command, w)

\* handle_tunnel_events constructing Disconnecting without the teardown.
handle_tunnel_events_NoTeardown(self, event, w) ==
    IF event.kind \in {"Down", "None"}
    THEN NewState(DisconnectingState_enter(w, self.tunnel_close_tx, self.tunnel_close_event,
                                           Reconnect(0)))
    ELSE SameState(self, w)

\* handle_tunnel_events starting the next tunnel without waiting for the close event.
handle_tunnel_events_Reconnecting(self, event, w) ==
    IF event.kind \in {"Down", "None"}
    THEN UNION { UNION { NewState(ConnectingState_enter(w2, 0)) : w2 \in reset_routes(w1) }
                 : w1 \in reset_dns(w) }
    ELSE SameState(self, w)

\* handle_tunnel_events tearing the tunnel down on every event.
handle_tunnel_events_AnyEvent(self, event, w) ==
    disconnect(self, w, Reconnect(0))

\* ConnectedState::handle_tunnel_events
handle_tunnel_events(self, event, w) ==
    IF event.kind \in {"Down", "None"}
    THEN disconnect(self, w, Reconnect(0))
    ELSE SameState(self, w)

\* handle_tunnel_close_event entering Error without the teardown.
handle_tunnel_close_event_NoReset(self, block_reason, w) ==
    IF block_reason # "none"
    THEN NewState(ErrorState_enter(w, block_reason))
    ELSE UNION { UNION { NewState(ConnectingState_enter(w2, 0)) : w2 \in reset_routes(w1) }
                 : w1 \in reset_dns(w) }

\* ConnectedState::handle_tunnel_close_event
handle_tunnel_close_event(self, block_reason, w) ==
    UNION { UNION { IF block_reason # "none"
                    THEN NewState(ErrorState_enter(w2, block_reason))
                    ELSE NewState(ConnectingState_enter(w2, 0))
                    : w2 \in reset_routes(w1) }
            : w1 \in reset_dns(w) }

\* The Close arm taking a cancelled close event for a fatal tunnel error.
CloseBlockReason_CanceledIsFatal(result) ==
    IF result.kind = "Ok" THEN result.arg ELSE "TunnelParameterError"

\* The EventResult::Close arm of handle_event: result.unwrap_or(None).
CloseBlockReason(result) == IF result.kind = "Ok" THEN result.arg ELSE "none"

---------------------------------------------------------------------------
\* The other four states' handlers.

ConfigCommands == {"AllowLan", "Dns", "AllowEndpoint", "BlockWhenDisconnected",
                   "Connectivity", "SetExcludedApps"}

\* Stores the value a configuration command carries in the shared context.
StoreConfig(w, command) ==
    CASE command.kind = "AllowLan" -> [w EXCEPT !.shared.allow_lan = Bool(command.arg)]
      [] command.kind = "Dns" -> [w EXCEPT !.shared.dns_config = command.arg]
      [] command.kind = "AllowEndpoint" -> [w EXCEPT !.shared.allowed_endpoint = command.arg]
      [] command.kind = "BlockWhenDisconnected" ->
            [w EXCEPT !.shared.block_when_disconnected = Bool(command.arg)]
      [] command.kind = "Connectivity" -> [w EXCEPT !.shared.connectivity = command.arg]
      [] command.kind = "SetExcludedApps" -> [w EXCEPT !.shared.excluded_paths = command.arg]
      [] OTHER -> w

\* Signals the command's completion channel when it carries one.
Acknowledge(w, command) ==
    IF command.kind \in AckedCommands \cup {"BypassSocket"}
    THEN complete_tx_send(w, command)
    ELSE w

\* DNS reset and route clearing issued on a path into Disconnecting.
Teardown(w) ==
    UNION { Succeeded(clear_routes(w1)) : w1 \in Succeeded(reset_before_interface_removal(w)) }

\* DisconnectedState::handle_event
DisconnectedHandle(self, command, w) ==
    CASE command.kind = "Connect" -> NewState(ConnectingState_enter(w, 0))
      [] command.kind = "Block" -> NewState(ErrorState_enter(w, command.arg))
      [] command.kind = "BlockWhenDisconnected" ->
            LET w0 == StoreConfig(w, command)
            IN  { [c EXCEPT !.w = Acknowledge(c.w, command)]
                  : c \in UNION { SameState(self, w1)
                                  : w1 \in IF w0.shared.block_when_disconnected
                                           THEN Succeeded(apply_policy(w0, BlockedPolicy))
                                           ELSE { Log([w0 EXCEPT !.firewall = NoPolicy],
                                                      "reset_policy", "none", "Ok") } } }
      [] OTHER -> SameState(self, Acknowledge(StoreConfig(w, command), command))

\* ConnectingState::handle_event, the command channel
ConnectingHandleCommand(self, command, w) ==
    CASE command.kind \in {"Disconnect", "None"} ->
            UNION { NewState(DisconnectingState_enter(w1, self.tunnel_close_tx,
                                 self.tunnel_close_event, Nothing))
                    : w1 \in Teardown(w) }
      [] command.kind = "Block" ->
            UNION { NewState(DisconnectingState_enter(w1, self.tunnel_close_tx,
                                 self.tunnel_close_event, Block(command.arg)))
                    : w1 \in Teardown(w) }
      [] OTHER -> SameState(self, Acknowledge(StoreConfig(w, command), command))

\* ConnectingState::handle_event, TunnelEvent::Up acknowledging the event before
\* the tunnel's resources move into ConnectedState::enter.
ConnectingHandleUp_AckFirst(self, metadata, w) ==
    NewState(enter(Log(w, "up_ack.send", metadata.interface, "Ok"),
                   metadata, self.tunnel_parameters, self.tunnel_close_event,
                   self.tunnel_close_tx))

\* ConnectingState::handle_event, TunnelEvent::Up: the tunnel's resources move
\* into ConnectedState::enter, and the event's acknowledgment sender, which
\* enter is not given, is signalled once enter has returned, so that the
\* monitor waits for the firewall and DNS side effects.
ConnectingHandleUp(self, metadata, w) ==
    { [c EXCEPT !.w = Log(c.w, "up_ack.send", metadata.interface, "Ok")]
      : c \in NewState(enter(w, metadata, self.tunnel_parameters, self.tunnel_close_event,
                             self.tunnel_close_tx)) }

\* The close handler of Connecting retrying without a ceiling.
ConnectingHandleClose_NoCeiling(self, block_reason, w) ==
    NewState(ConnectingState_enter(w, self.retry_attempt + 1))

\* ConnectingState::handle_event, the tunnel failing or closing before Up.
ConnectingHandleClose(self, block_reason, w) ==
    IF self.retry_attempt < RetryCeiling
    THEN NewState(ConnectingState_enter(w, self.retry_attempt + 1))
    ELSE NewState(ErrorState_enter(w, IF block_reason # "none"
                                      THEN block_reason
                                      ELSE "TunnelError"))

\* DisconnectingState treating Block like every other command while it waits.
DisconnectingHandleCommand_IgnoringBlock(self, command, w) ==
    SameState(self, Acknowledge(w, command))

\* DisconnectingState::handle_event, the command channel
DisconnectingHandleCommand(self, command, w) ==
    IF command.kind = "Block" /\ self.after_disconnect.kind \in {"Nothing", "Reconnect"}
    THEN SameState([self EXCEPT !.after_disconnect = Block(command.arg)], w)
    ELSE SameState(self, Acknowledge(w, command))

\* DisconnectingState dispatching Reconnect(n) with the attempt counter raised.
DisconnectingHandleClose_Escalating(self, w) ==
    CASE self.after_disconnect.kind = "Nothing" -> NewState(DisconnectedState_enter(w))
      [] self.after_disconnect.kind = "Reconnect" ->
            NewState(ConnectingState_enter(w, self.after_disconnect.n + 1))
      [] self.after_disconnect.kind = "Block" ->
            NewState(ErrorState_enter(w, self.after_disconnect.cause))

\* DisconnectingState::handle_event, the close event resolving
DisconnectingHandleClose(self, w) ==
    CASE self.after_disconnect.kind = "Nothing" -> NewState(DisconnectedState_enter(w))
      [] self.after_disconnect.kind = "Reconnect" ->
            NewState(ConnectingState_enter(w, self.after_disconnect.n))
      [] self.after_disconnect.kind = "Block" ->
            NewState(ErrorState_enter(w, self.after_disconnect.cause))

\* ErrorState::handle_event
ErrorHandle(self, command, w) ==
    CASE command.kind \in {"Disconnect", "None"} ->
            UNION { NewState(DisconnectingState_enter(w1, 0, 0, Nothing))
                    : w1 \in Teardown(w) }
      [] command.kind = "Connect" ->
            UNION { NewState(DisconnectingState_enter(w1, 0, 0, Reconnect(0)))
                    : w1 \in Teardown(w) }
      [] command.kind \in ConfigCommands \ {"Connectivity"} ->
            { [c EXCEPT !.w = Acknowledge(c.w, command)]
              : c \in UNION { SameState(self, w1)
                              : w1 \in Succeeded(apply_policy(StoreConfig(w, command),
                                                                BlockedPolicy)) } }
      [] OTHER -> SameState(self, Acknowledge(StoreConfig(w, command), command))

---------------------------------------------------------------------------
\* The driver loop

Stimulus(source, x) == [source |-> source, kind |-> x.kind, arg |-> x.arg]

NoStimulus == [source |-> "none", kind |-> "none", arg |-> "none"]

\* What commands.next() may yield.
NextCommands ==
    IF commands_closed
    THEN {ChannelClosed}
    ELSE { c \in CommandsOf(platform)
           : c.kind \in SettingCommands => commands_seen < MaxConfigCommands }
         \cup {ChannelClosed}

\* What tunnel_events.next() may yield in Connected.
TunnelEvents ==
    { [kind |-> "Down", arg |-> "none"], [kind |-> "None", arg |-> "none"],
      [kind |-> "Up", arg |-> "none"] }

\* What the tunnel close event may resolve to.
CloseResults ==
    { [kind |-> "Ok", arg |-> "none"], [kind |-> "Canceled", arg |-> "none"] }
    \cup { [kind |-> "Ok", arg |-> c] : c \in TunnelCauses }

\* The stimuli the select of each state's handle_event may yield.
Stimuli(st) ==
    CASE st.name \in {"Disconnected", "Error"} ->
            { Stimulus("command", c) : c \in NextCommands }
      [] st.name = "Connecting" ->
            { Stimulus("command", c) : c \in NextCommands }
            \cup { Stimulus("event", [kind |-> "Up", arg |-> "none"]) }
            \cup { Stimulus("close", r) : r \in CloseResults }
      [] st.name = "Connected" ->
            { Stimulus("command", c) : c \in NextCommands }
            \cup { Stimulus("event", e) : e \in TunnelEvents }
            \cup { Stimulus("close", r) : r \in CloseResults }
      [] st.name = "Disconnecting" ->
            { Stimulus("command", c) : c \in NextCommands }
            \cup { Stimulus("close", [kind |-> "Ok", arg |-> "none"]) }

\* The match on EventResult in ConnectedState's handle_event.
handle_event_result(self, result, w) ==
    CASE result.source = "command" -> handle_commands(self, result, w)
      [] result.source = "event" -> handle_tunnel_events(self, result, w)
      [] result.source = "close" ->
            handle_tunnel_close_event(self, CloseBlockReason(result), w)

\* The consequences of a stimulus in each state.
Consequences(st, stim, w) ==
    CASE st.name = "Disconnected" -> DisconnectedHandle(st, stim, w)
      [] st.name = "Connecting" /\ stim.source = "command" ->
            ConnectingHandleCommand(st, stim, w)
      [] st.name = "Connecting" /\ stim.source = "event" ->
            ConnectingHandleUp(st, [interface |-> st.tunnel_close_event], w)
      [] st.name = "Connecting" /\ stim.source = "close" ->
            ConnectingHandleClose(st, CloseBlockReason(stim), w)
      [] st.name = "Connected" -> handle_event_result(st, stim, w)
      [] st.name = "Disconnecting" /\ stim.source = "command" ->
            DisconnectingHandleCommand(st, stim, w)
      [] st.name = "Disconnecting" /\ stim.source = "close" ->
            DisconnectingHandleClose(st, w)
      [] st.name = "Error" -> ErrorHandle(st, stim, w)

Started(tr) == Cardinality({ i \in 1..Len(tr) : tr[i].op = "start_tunnel" })

\* 1 when the consequence enters Connecting with attempt counter 0.
FreshStarts(c) ==
    IF Started(c.w.trace) > 0 /\ c.state.retry_attempt = 0 THEN 1 ELSE 0

\* The driver replaces its state by the consequence's and, for NewState,
\* notifies the transition's observers.
Commit(c, stim) ==
    /\ state' = c.state
    /\ shared' = c.w.shared
    /\ firewall' = c.w.firewall
    /\ dns' = c.w.dns
    /\ teardown' = c.w.teardown
    /\ trace' = IF c.kind = "NewState"
                THEN Append(c.w.trace, [op |-> "transition", arg |-> c.transition, res |-> "Ok"])
                ELSE c.w.trace
    /\ stimulus' = stim
    /\ prev' = state.name
    /\ commands_closed' = (commands_closed \/ (stim.source = "command" /\ stim.kind = "None"))
    /\ live_tunnels' = live_tunnels
                       - (IF stim.source = "close" /\ state.tunnel_close_event # 0 THEN 1 ELSE 0)
                       + Started(c.w.trace)
    /\ sessions + FreshStarts(c) <= MaxSessions
    /\ sessions' = sessions + FreshStarts(c)
    /\ next_tunnel' = IF Started(c.w.trace) > 0
                      THEN (next_tunnel % Cardinality(Interfaces)) + 1
                      ELSE next_tunnel
    /\ commands_seen' = commands_seen
                        + (IF stim.source = "command" /\ stim.kind \in SettingCommands
                           THEN 1 ELSE 0)
    /\ UNCHANGED << platform, local_dns_resolver >>

\* DisconnectedState: one iteration of the driver loop; the machine stops once
\* the command channel is closed.
DisconnectedHandleEvent ==
    /\ state.name = "Disconnected"
    /\ ~commands_closed
    /\ \E stim \in Stimuli(state) :
         \E c \in Consequences(state, stim, World) :
            Commit(c, stim)
    /\ UNCHANGED outside_tunnel

\* ConnectingState: one iteration of the driver loop.
ConnectingHandleEvent ==
    /\ state.name = "Connecting"
    /\ \E stim \in Stimuli(state) :
         \E c \in Consequences(state, stim, World) :
            Commit(c, stim)
    /\ UNCHANGED outside_tunnel

\* impl TunnelState for ConnectedState: handle_event
handle_event ==
    /\ state.name = "Connected"
    /\ \E stim \in Stimuli(state) :
         \E c \in Consequences(state, stim, World) :
            Commit(c, stim)
    /\ UNCHANGED outside_tunnel

\* DisconnectingState: one iteration of the driver loop.
DisconnectingHandleEvent ==
    /\ state.name = "Disconnecting"
    /\ \E stim \in Stimuli(state) :
         \E c \in Consequences(state, stim, World) :
            Commit(c, stim)
    /\ UNCHANGED outside_tunnel

\* ErrorState: one iteration of the driver loop.
ErrorHandleEvent ==
    /\ state.name = "Error"
    /\ \E stim \in Stimuli(state) :
         \E c \in Consequences(state, stim, World) :
            Commit(c, stim)
    /\ UNCHANGED outside_tunnel

InitShared ==
    [allow_lan |-> FALSE, dns_config |-> "default", allowed_endpoint |-> "none",
     block_when_disconnected |-> FALSE, connectivity |-> "Online",
     excluded_paths |-> "none", redirect_interface |-> "none"]

MachineInit ==
    /\ platform \in Platforms
    /\ local_dns_resolver \in (IF platform = "macos" THEN BOOLEAN ELSE {FALSE})
    /\ state = StateRecord("Disconnected", NoMetadata, NoParams, 0, 0, 0, NoAfter, "none")
    /\ shared = InitShared
    /\ firewall = NoPolicy
    /\ dns = NoDnsState
    /\ trace = << >>
    /\ stimulus = NoStimulus
    /\ prev = "none"
    /\ live_tunnels = 0
    /\ next_tunnel = 1
    /\ sessions = 0
    /\ commands_seen = 0
    /\ commands_closed = FALSE
    /\ teardown = {}

Init ==
    /\ MachineInit
    /\ ConnectorNew
    /\ ChannelsNew
    /\ CacheNew
    /\ ResolveNew
    /\ NetlinkNew

Next ==
    \/ DisconnectedHandleEvent
    \/ ConnectingHandleEvent
    \/ handle_event
    \/ DisconnectingHandleEvent
    \/ ErrorHandleEvent

Spec == Init /\ [][Next]_vars

----------------------------------------------------------------------------
\* The API connector: HttpsConnectorWithSni and its handle
\* (mullvad-api/src/https_client_with_sni.rs)

\* enum ApiConnectionMode with its ProxyConfig, as far as the conversion
\* tells the values apart.
ApiConnectionModes ==
    {"Direct", "Shadowsocks", "ShadowsocksUnknownCipher", "Socks5Local", "Socks5Remote",
     "EncryptedDnsProxy"}

\* enum HttpsConnectorRequest
ResetRequest == [kind |-> "Reset", config |-> "none"]

SetConnectionModeRequest(config) == [kind |-> "SetConnectionMode", config |-> config]

\* impl TryFrom<ApiConnectionMode> for InnerConnectionMode
try_from(config) ==
    CASE config = "Direct" -> [ok |-> TRUE, mode |-> DirectMode]
      [] config = "Shadowsocks" ->
            [ok |-> TRUE, mode |-> [kind |-> "Shadowsocks", peer |-> "endpoint"]]
      [] config = "ShadowsocksUnknownCipher" ->
            [ok |-> FALSE, mode |-> [kind |-> "InvalidCipher", peer |-> "none"]]
      [] config = "Socks5Local" ->
            [ok |-> TRUE, mode |-> [kind |-> "Socks5", peer |-> "localhost"]]
      [] config = "Socks5Remote" ->
            [ok |-> TRUE, mode |-> [kind |-> "Socks5", peer |-> "endpoint"]]
      [] config = "EncryptedDnsProxy" ->
            [ok |-> TRUE, mode |-> [kind |-> "EncryptedDnsProxy", peer |-> "addr"]]

HandlesIn(handles) == { handles[i] : i \in 1..Len(handles) }

\* The handle's unbounded_send.
unbounded_send(request) ==
    /\ requests_sent < MaxRequests
    /\ rx' = Append(rx, request)
    /\ requests_sent' = requests_sent + 1
    /\ connector_event' = NoConnectorEvent
    /\ UNCHANGED << proxy_config, stream_handles, closed, calls, next_handle >>
    /\ UNCHANGED outside_connector

\* HttpsConnectorWithSniHandle::reset
reset == unbounded_send(ResetRequest)

\* HttpsConnectorWithSniHandle::set_connection_mode
set_connection_mode ==
    \E proxy \in ApiConnectionModes : unbounded_send(SetConnectionModeRequest(proxy))

\* The request task falling back to Direct when the configuration does not convert.
ModeAfter_DirectOnError(request, mode) ==
    IF request.kind = "SetConnectionMode"
    THEN IF try_from(request.config).ok THEN try_from(request.config).mode ELSE DirectMode
    ELSE mode

\* The mode the request task stores for a request.
ModeAfter(request, mode) ==
    IF request.kind = "SetConnectionMode" /\ try_from(request.config).ok
    THEN try_from(request.config).mode
    ELSE mode

\* Notify::notify_waiters: every Notified future that exists is completed.
\* For a call whose connection is established it is noted that a request has
\* been handled since.
notify_waiters(cs) ==
    [c \in CallIds |-> IF cs[c].pc = "connecting" THEN [cs[c] EXCEPT !.notified = TRUE]
                       ELSE IF cs[c].pc \in {"established", "returned"}
                       THEN [cs[c] EXCEPT !.reset_after = TRUE]
                       ELSE cs[c]]

\* The request task taking the stream handles without closing them.
RequestTask_NotClosing ==
    /\ rx # << >>
    /\ rx' = Tail(rx)
    /\ proxy_config' = ModeAfter(Head(rx), proxy_config)
    /\ stream_handles' = << >>
    /\ closed' = closed
    /\ calls' = notify_waiters(calls)
    /\ connector_event' = [op |-> "request", request |-> Head(rx),
                           handles |-> stream_handles]
    /\ UNCHANGED << requests_sent, next_handle >>
    /\ UNCHANGED outside_connector

\* One iteration of the task spawned by HttpsConnectorWithSni::new: receive a
\* request, store the mode it carries if it converts, take the stream
\* handles, close each, notify the waiting calls.
RequestTask ==
    /\ rx # << >>
    /\ rx' = Tail(rx)
    /\ proxy_config' = ModeAfter(Head(rx), proxy_config)
    /\ stream_handles' = << >>
    /\ closed' = closed \cup HandlesIn(stream_handles)
    /\ calls' = notify_waiters(calls)
    /\ connector_event' = [op |-> "request", request |-> Head(rx),
                           handles |-> stream_handles]
    /\ UNCHANGED << requests_sent, next_handle >>
    /\ UNCHANGED outside_connector

\* Service::poll_ready: forget the handles of streams that are closed.
poll_ready ==
    /\ stream_handles' = SelectSeq(stream_handles, LAMBDA h : h \notin closed)
    /\ connector_event' = NoConnectorEvent
    /\ UNCHANGED << rx, requests_sent, proxy_config, closed, calls, next_handle >>
    /\ UNCHANGED outside_connector

\* Service::call up to the wait for the connection: the URI is checked and
\* resolved, the Notified future is created and the connection mode read.
call ==
    \E c \in CallIds :
        /\ calls[c].pc = "idle"
        /\ \E resolved \in BOOLEAN :
              calls' = [calls EXCEPT ![c] =
                           IF resolved
                           THEN [pc |-> "connecting", mode |-> proxy_config,
                                 notified |-> FALSE, handle |-> 0, reset_after |-> FALSE]
                           ELSE [NoCall EXCEPT !.pc = "failed"]]
        /\ connector_event' = NoConnectorEvent
        /\ UNCHANGED << rx, requests_sent, proxy_config, stream_handles, closed, next_handle >>
        /\ UNCHANGED outside_connector

\* The wait of call resolves with the connection attempt: select polls the
\* attempt before the notification, so an attempt that has finished wins
\* over a notification that has arrived too.
CallConnected ==
    \E c \in CallIds :
        /\ calls[c].pc = "connecting"
        /\ \E ok \in BOOLEAN :
              calls' = [calls EXCEPT ![c].pc = IF ok THEN "established" ELSE "failed"]
        /\ connector_event' = NoConnectorEvent
        /\ UNCHANGED << rx, requests_sent, proxy_config, stream_handles, closed, next_handle >>
        /\ UNCHANGED outside_connector

\* The wait of call resolves with the notification: the attempt is dropped
\* and the loop starts over, reading the connection mode again.
CallRestart ==
    \E c \in CallIds :
        /\ calls[c].pc = "connecting"
        /\ calls[c].notified
        /\ calls' = [calls EXCEPT ![c].mode = proxy_config, ![c].notified = FALSE]
        /\ connector_event' = NoConnectorEvent
        /\ UNCHANGED << rx, requests_sent, proxy_config, stream_handles, closed, next_handle >>
        /\ UNCHANGED outside_connector

\* The end of call: the stream is wrapped, its handle pushed, the stream returned.
CallRegister ==
    \E c \in CallIds :
        /\ calls[c].pc = "established"
        /\ calls' = [calls EXCEPT ![c].pc = "returned", ![c].handle = next_handle]
        /\ stream_handles' = Append(stream_handles, next_handle)
        /\ next_handle' = next_handle + 1
        /\ connector_event' = NoConnectorEvent
        /\ UNCHANGED << rx, requests_sent, proxy_config, closed >>
        /\ UNCHANGED outside_connector

\* A returned stream is shut down or dropped by its user: its handle reads closed.
StreamClosed ==
    \E c \in CallIds :
        /\ calls[c].pc = "returned"
        /\ calls[c].handle \notin closed
        /\ closed' = closed \cup {calls[c].handle}
        /\ connector_event' = NoConnectorEvent
        /\ UNCHANGED << rx, requests_sent, proxy_config, stream_handles, calls, next_handle >>
        /\ UNCHANGED outside_connector

\* The connector beside a tunnel state machine that has not been started.
ConnectorInit == Init /\ platform = "linux"

ConnectorNext ==
    \/ reset
    \/ set_connection_mode
    \/ RequestTask
    \/ poll_ready
    \/ call
    \/ CallConnected
    \/ CallRestart
    \/ CallRegister
    \/ StreamClosed

ConnectorSpec == ConnectorInit /\ [][ConnectorNext]_connector_vars

----------------------------------------------------------------------------
\* ConnectedState::handle_event with its three sources kept as channels:
\* what is sent stays in its channel until a handle_event call receives it.

Sources == {"command", "event", "close"}

\* The sources whose future is ready when handle_event polls them.
Ready ==
    { src \in Sources :
        \/ src = "command" /\ commands # << >>
        \/ src = "event" /\ tunnel_events # << >>
        \/ src = "close" /\ close_event # PendingClose }

\* futures::select!: one of the ready branches, picked without an order among them.
select_Biased(ready) ==
    IF "command" \in ready THEN {"command"}
    ELSE IF "event" \in ready THEN {"event"}
    ELSE ready

select(ready) == ready

\* The value the branch of a source completes with.
Yielded(src) ==
    CASE src = "command" -> Stimulus("command", Head(commands))
      [] src = "event" -> Stimulus("event", Head(tunnel_events))
      [] src = "close" -> Stimulus("close", close_event)

\* The commands sent while the channels are followed: one that changes a
\* setting and may fail, one that only stores a value, one that always leaves
\* Connected, and the closing of the channel.
SelectCommands ==
    { c \in CommandsOf(platform) : c.kind \in {"AllowLan", "BlockWhenDisconnected", "Connect"} }
    \cup {ChannelClosed}

\* The application sends a command, or drops the sender.  The channels are
\* followed for as long as the state is Connected.
SendCommand ==
    /\ state.name = "Connected"
    /\ Len(sent.command) < MaxSends
    /\ \A i \in 1..Len(sent.command) : sent.command[i].kind # "None"
    /\ \E c \in SelectCommands :
          /\ commands' = Append(commands, c)
          /\ sent' = [sent EXCEPT !.command = Append(@, Stimulus("command", c))]
    /\ UNCHANGED << tunnel_events, close_event, delivered >>
    /\ UNCHANGED << vars, connector_vars, cache_vars, resolve_vars, netlink_vars >>

\* The tunnel monitor sends an event, or drops the sender.
SendTunnelEvent ==
    /\ state.name = "Connected"
    /\ Len(sent.event) < MaxSends
    /\ \A i \in 1..Len(sent.event) : sent.event[i].kind # "None"
    /\ \E e \in TunnelEvents :
          /\ tunnel_events' = Append(tunnel_events, e)
          /\ sent' = [sent EXCEPT !.event = Append(@, Stimulus("event", e))]
    /\ UNCHANGED << commands, close_event, delivered >>
    /\ UNCHANGED << vars, connector_vars, cache_vars, resolve_vars, netlink_vars >>

\* The tunnel monitor stops: the close event resolves.
ResolveClose ==
    /\ state.name = "Connected"
    /\ sent.close = << >>
    /\ \E r \in CloseResults :
          /\ close_event' = r
          /\ sent' = [sent EXCEPT !.close = << Stimulus("close", r) >>]
    /\ UNCHANGED << commands, tunnel_events, delivered >>
    /\ UNCHANGED << vars, connector_vars, cache_vars, resolve_vars, netlink_vars >>

\* One handle_event call of ConnectedState: the select completes with the
\* value of one ready source, which leaves its channel, and the value is
\* dispatched to its handler.
SelectFrom(src) ==
    /\ state.name = "Connected"
    /\ src \in select(Ready)
    /\ \E c \in handle_event_result(state, Yielded(src), World) :
          Commit(c, Yielded(src))
    /\ commands' = IF src = "command" THEN Tail(commands) ELSE commands
    /\ tunnel_events' = IF src = "event" THEN Tail(tunnel_events) ELSE tunnel_events
    /\ close_event' = IF src = "close" THEN PendingClose ELSE close_event
    /\ delivered' = Append(delivered, Yielded(src))
    /\ UNCHANGED sent
    /\ UNCHANGED << connector_vars, cache_vars, resolve_vars, netlink_vars >>

SelectHandleEvent == \E src \in Sources : SelectFrom(src)

\* Connected as ConnectingState leaves it on the first tunnel's Up, with the
\* shared context of a fresh machine, on Linux with a plain WireGuard tunnel.
SelectInit ==
    /\ platform = "linux"
    /\ local_dns_resolver = FALSE
    /\ \E params \in { p \in TunnelParams : p.id = "wireguard" } :
         \E c \in ConnectingHandleUp(
                      StateRecord("Connecting", NoMetadata, params, 1, 1, 0, NoAfter, "none"),
                      [interface |-> 1],
                      [shared |-> InitShared, firewall |-> ConnectingPolicy(params, FALSE),
                       dns |-> NoDnsState, trace |-> << >>, teardown |-> {}]) :
            /\ c.state.name = "Connected"
            /\ state = c.state
            /\ shared = c.w.shared
            /\ firewall = c.w.firewall
            /\ dns = c.w.dns
            /\ teardown = c.w.teardown
            /\ trace = Append(c.w.trace,
                              [op |-> "transition", arg |-> c.transition, res |-> "Ok"])
    /\ stimulus = Stimulus("event", [kind |-> "Up", arg |-> "none"])
    /\ prev = "Connecting"
    /\ live_tunnels = 1
    /\ next_tunnel = 2
    /\ sessions = 1
    /\ commands_seen = 0
    /\ commands_closed = FALSE
    /\ ConnectorNew
    /\ ChannelsNew
    /\ CacheNew
    /\ ResolveNew
    /\ NetlinkNew

SelectNext ==
    \/ SendCommand
    \/ SendTunnelEvent
    \/ ResolveClose
    \/ SelectHandleEvent

all_vars == << vars, connector_vars, select_vars, cache_vars, resolve_vars, netlink_vars >>

\* The select picks among the ready branches pseudo-randomly, so a source
\* that stays ready is not passed over forever.
SelectSpec ==
    /\ SelectInit
    /\ [][SelectNext]_all_vars
    /\ \A src \in Sources : WF_all_vars(SelectFrom(src))

----------------------------------------------------------------------------
\* The cached API connection mode (mullvad-api/src/proxy.rs)

\* serde_json::to_string_pretty of an ApiConnectionMode: a unit variant is
\* written as its name, a Proxied one as nested objects.
to_string_pretty(mode) ==
    CASE mode = "Direct" -> "'Direct'"
      [] mode = "Shadowsocks" -> "{'Proxied':{'Shadowsocks':{'cipher':'aes-256-gcm'}}}"
      [] mode = "ShadowsocksUnknownCipher" -> "{'Proxied':{'Shadowsocks':{'cipher':'rot13'}}}"
      [] mode = "Socks5Local" -> "{'Proxied':{'Socks5Local':{}}}"
      [] mode = "Socks5Remote" -> "{'Proxied':{'Socks5Remote':{}}}"
      [] mode = "EncryptedDnsProxy" -> "{'Proxied':{'EncryptedDnsProxy':{}}}"

\* serde_json::from_str into an ApiConnectionMode. The cipher of a
\* Shadowsocks proxy is a string to serde: any value deserializes.
from_str(text) ==
    CASE text = "'Direct'" -> [ok |-> TRUE, value |-> "Direct"]
      [] text = "{'Proxied':{'Shadowsocks':{'cipher':'aes-256-gcm'}}}" ->
            [ok |-> TRUE, value |-> "Shadowsocks"]
      [] text = "{'Proxied':{'Shadowsocks':{'cipher':'rot13'}}}" ->
            [ok |-> TRUE, value |-> "ShadowsocksUnknownCipher"]
      [] text = "{'Proxied':{'Socks5Local':{}}}" -> [ok |-> TRUE, value |-> "Socks5Local"]
      [] text = "{'Proxied':{'Socks5Remote':{}}}" -> [ok |-> TRUE, value |-> "Socks5Remote"]
      [] text = "{'Proxied':{'EncryptedDnsProxy':{}}}" ->
            [ok |-> TRUE, value |-> "EncryptedDnsProxy"]
      [] OTHER -> [ok |-> FALSE, value |-> "none"]

\* Contents of the file that are not a serialized ApiConnectionMode.
OtherTexts == {"", "{'Proxied':", "'Bridge'"}

\* What fs::read_to_string can find at the path: no file, a file that cannot
\* be read, a file that is not UTF-8, or a text.
CacheFiles ==
    [read : {"NotFound", "PermissionDenied", "InvalidData"}, text : {"none"}]
        \cup [read : {"Ok"},
              text : { to_string_pretty(mode) : mode \in ApiConnectionModes } \cup OtherTexts]

\* from_cache taking a missing file for a failure.
from_cache_NotFoundIsError(file) ==
    CASE file.read = "Ok" ->
            IF from_str(file.text).ok THEN from_str(file.text)
            ELSE [ok |-> FALSE, value |-> "Other: deserialization failed"]
      [] OTHER -> [ok |-> FALSE, value |-> file.read]

\* ApiConnectionMode::from_cache
from_cache(file) ==
    CASE file.read = "Ok" ->
            IF from_str(file.text).ok THEN from_str(file.text)
            ELSE [ok |-> FALSE, value |-> "Other: deserialization failed"]
      [] file.read = "NotFound" -> [ok |-> TRUE, value |-> "Direct"]
      [] OTHER -> [ok |-> FALSE, value |-> file.read]

\* ApiConnectionMode::try_from_cache
try_from_cache(file) ==
    IF from_cache(file).ok THEN from_cache(file) ELSE [ok |-> TRUE, value |-> "Direct"]

\* ApiConnectionMode::save: on success the file holds the serialized mode; a
\* failure of the atomic file leaves what was there.
save ==
    /\ \E mode \in ApiConnectionModes, res \in OkErr :
          cache_file' = IF res = "Ok" THEN [read |-> "Ok", text |-> to_string_pretty(mode)]
                        ELSE cache_file
    /\ UNCHANGED << vars, connector_vars, select_vars, cache_read, resolve_vars, netlink_vars >>

\* ApiConnectionMode::try_delete_cache: the file is removed, or the removal
\* fails and is logged.
try_delete_cache ==
    /\ \E res \in OkErr :
          cache_file' = IF res = "Ok" THEN [read |-> "NotFound", text |-> "none"]
                        ELSE cache_file
    /\ UNCHANGED << vars, connector_vars, select_vars, cache_read, resolve_vars, netlink_vars >>

\* The file changes outside the program: it is truncated or overwritten, or
\* reading it starts to fail.
CacheFileChanged ==
    /\ \E file \in CacheFiles :
          /\ file.read # "Ok" \/ file.text \in OtherTexts
          /\ cache_file' = file
    /\ UNCHANGED << vars, connector_vars, select_vars, cache_read, resolve_vars, netlink_vars >>

\* A call of from_cache.
FromCache ==
    /\ cache_read' = [op |-> "from_cache", file |-> cache_file, result |-> from_cache(cache_file)]
    /\ UNCHANGED << vars, connector_vars, select_vars, cache_file, resolve_vars, netlink_vars >>

\* A call of try_from_cache.
TryFromCache ==
    /\ cache_read' = [op |-> "try_from_cache", file |-> cache_file,
                      result |-> try_from_cache(cache_file)]
    /\ UNCHANGED << vars, connector_vars, select_vars, cache_file, resolve_vars, netlink_vars >>

\* The cache directory of a fresh installation, beside a tunnel state
\* machine that has not been started.
CacheInit == Init /\ platform = "linux"

CacheNext ==
    \/ save
    \/ try_delete_cache
    \/ CacheFileChanged
    \/ FromCache
    \/ TryFromCache

CacheSpec == CacheInit /\ [][CacheNext]_cache_vars

----------------------------------------------------------------------------
\* HttpsConnectorWithSni::resolve_address (mullvad-api/src/https_client_with_sni.rs)

\* const DEFAULT_PORT
DEFAULT_PORT == 443

\* What Uri::host returns for the URIs given: nothing, an IPv4 literal, an
\* IPv6 literal, which the authority of a URI holds in square brackets and
\* host returns with them, or a name.
Hosts == {"none", "192.0.2.1", "[2001:db8::1]", "api.mullvad.net"}

\* What Uri::port_u16 returns: None or Some(port).
UriPorts == {[some |-> FALSE, port |-> 0], [some |-> TRUE, port |-> 8443]}

\* str::parse::<IpAddr>: the textual form of an address, without brackets.
ParseIpAddr(text) ==
    CASE text = "192.0.2.1" -> [ok |-> TRUE, ip |-> "192.0.2.1"]
      [] text = "2001:db8::1" -> [ok |-> TRUE, ip |-> "2001:db8::1"]
      [] OTHER -> [ok |-> FALSE, ip |-> "none"]

\* The socket addresses a DnsResolver may answer with.
SocketAddrs == [ip : {"198.51.100.7", "198.51.100.8"}, port : {0, 53}]

\* DnsResolver::resolve: an error, or a list of addresses that may be empty.
DnsAnswers ==
    {[ok |-> FALSE, addrs |-> << >>]}
        \cup { [ok |-> TRUE, addrs |-> addrs] :
                 addrs \in UNION { [1..k -> SocketAddrs] : k \in 0..MaxAnswers } }

Resolved(ip, port, called) ==
    [done |-> TRUE, ok |-> TRUE, ip |-> ip, port |-> port, error |-> "none",
     resolver_called |-> called]

ResolveFailed(error, called) ==
    [done |-> TRUE, ok |-> FALSE, ip |-> "none", port |-> 0, error |-> error,
     resolver_called |-> called]

\* HttpsConnectorWithSni::resolve_address
resolve_address(uri, answer) ==
    IF uri.host = "none" THEN ResolveFailed("InvalidInput", FALSE)
    ELSE IF ParseIpAddr(uri.host).ok
    THEN Resolved(ParseIpAddr(uri.host).ip,
                  IF uri.port.some THEN uri.port.port ELSE DEFAULT_PORT, FALSE)
    ELSE IF ~answer.ok THEN ResolveFailed("resolve", TRUE)
    ELSE IF answer.addrs = << >> THEN ResolveFailed("Empty DNS response", TRUE)
    ELSE LET addr == answer.addrs[1]
             port == IF uri.port.some THEN uri.port.port
                     ELSE IF addr.port = 0 THEN DEFAULT_PORT
                     ELSE addr.port
         IN  Resolved(addr.ip, port, TRUE)

\* A call of resolve_address.
ResolveAddress ==
    /\ ~resolve_result.done
    /\ resolve_result' = resolve_address(resolve_uri, dns_answer)
    /\ UNCHANGED << vars, connector_vars, select_vars, cache_vars, resolve_uri, dns_answer,
                    netlink_vars >>

\* Any URI and any answer of the resolver, before the call.
ResolveInit ==
    /\ MachineInit
    /\ platform = "linux"
    /\ ConnectorNew
    /\ ChannelsNew
    /\ CacheNew
    /\ NetlinkNew
    /\ resolve_uri \in [host : Hosts, port : UriPorts]
    /\ dns_answer \in DnsAnswers
    /\ ResolveNotCalled

ResolveSpec == ResolveInit /\ [][ResolveAddress]_resolve_vars

----------------------------------------------------------------------------
\* NetlinkTunnel (talpid-wireguard/src/wireguard_kernel/netlink_tunnel.rs)

\* A call made on the netlink connections, with its result.
NetlinkCall(op, arg, res) == [op |-> op, arg |-> arg, res |-> res]

NetlinkOk == [ok |-> TRUE, error |-> [op |-> "none", arg |-> 0]]

\* The error a failed call returns.
NetlinkErr(op, arg) == [ok |-> FALSE, error |-> [op |-> op, arg |-> arg]]

\* What the calls of one NetlinkTunnel::new return: Handle::connect,
\* create_device, set_config, set_ip_address for each of the config's tunnel
\* addresses, delete_device.
NewOutcomes ==
    { o \in [connect : OkErr, create_device : OkErr, addresses : 0..MaxAddresses,
             set_config : OkErr, failing_address : 0..MaxAddresses, delete_device : OkErr] :
        o.failing_address <= o.addresses }

\* NetlinkTunnel::setup: the configuration is set, then each tunnel address
\* in turn; the first failure is returned and nothing more is tried.
setup(interface_index, o) ==
    IF o.set_config = "Err"
    THEN [calls |-> << NetlinkCall("set_config", interface_index, "Err") >>,
          result |-> NetlinkErr("set_config", interface_index)]
    ELSE LET tried == IF o.failing_address = 0 THEN o.addresses ELSE o.failing_address
         IN  [calls |-> << NetlinkCall("set_config", interface_index, "Ok") >>
                        \o [k \in 1..tried |->
                               NetlinkCall("set_ip_address", k,
                                           IF k = o.failing_address THEN "Err" ELSE "Ok")],
              result |-> IF o.failing_address = 0 THEN NetlinkOk
                         ELSE NetlinkErr("set_ip_address", o.failing_address)]

\* NetlinkTunnel::new returning the error of the failed deletion.
NetlinkTunnel_new_TeardownError(interface_index, o) ==
    IF o.connect = "Err"
    THEN [calls |-> << NetlinkCall("connect", 0, "Err") >>, result |-> NetlinkErr("connect", 0),
          created |-> FALSE, deleted |-> FALSE]
    ELSE IF o.create_device = "Err"
    THEN [calls |-> << NetlinkCall("connect", 0, "Ok"),
                       NetlinkCall("create_device", 0, "Err") >>,
          result |-> NetlinkErr("create_device", 0), created |-> FALSE, deleted |-> FALSE]
    ELSE LET created == << NetlinkCall("connect", 0, "Ok"),
                           NetlinkCall("create_device", interface_index, "Ok") >>
             s == setup(interface_index, o)
         IN  IF s.result.ok
             THEN [calls |-> created \o s.calls, result |-> NetlinkOk,
                   created |-> TRUE, deleted |-> FALSE]
             ELSE [calls |-> created \o s.calls
                             \o << NetlinkCall("delete_device", interface_index,
                                               o.delete_device) >>,
                   result |-> IF o.delete_device = "Err"
                              THEN NetlinkErr("delete_device", interface_index)
                              ELSE s.result,
                   created |-> TRUE, deleted |-> o.delete_device = "Ok"]

\* NetlinkTunnel::new: connect, create the device, set it up; when the setup
\* fails, delete the device, log a failure to do so, and return the setup's error.
NetlinkTunnel_new(interface_index, o) ==
    IF o.connect = "Err"
    THEN [calls |-> << NetlinkCall("connect", 0, "Err") >>, result |-> NetlinkErr("connect", 0),
          created |-> FALSE, deleted |-> FALSE]
    ELSE IF o.create_device = "Err"
    THEN [calls |-> << NetlinkCall("connect", 0, "Ok"),
                       NetlinkCall("create_device", 0, "Err") >>,
          result |-> NetlinkErr("create_device", 0), created |-> FALSE, deleted |-> FALSE]
    ELSE LET created == << NetlinkCall("connect", 0, "Ok"),
                           NetlinkCall("create_device", interface_index, "Ok") >>
             s == setup(interface_index, o)
         IN  IF s.result.ok
             THEN [calls |-> created \o s.calls, result |-> NetlinkOk,
                   created |-> TRUE, deleted |-> FALSE]
             ELSE [calls |-> created \o s.calls
                             \o << NetlinkCall("delete_device", interface_index,
                                               o.delete_device) >>,
                   result |-> s.result,
                   created |-> TRUE, deleted |-> o.delete_device = "Ok"]

\* Tunnel::stop for NetlinkTunnel: delete the device; a failure is logged and
\* returned as FatalStartWireguardError.
stop(interface_index, delete_device) ==
    [calls |-> << NetlinkCall("delete_device", interface_index, delete_device) >>,
     result |-> IF delete_device = "Err"
                THEN NetlinkErr("FatalStartWireguardError", interface_index)
                ELSE NetlinkOk,
     deleted |-> delete_device = "Ok"]

\* A call of NetlinkTunnel::new. The kernel gives the created device the next
\* interface index.
NewTunnel ==
    /\ netlink_tunnel = 0
    /\ next_ifindex <= MaxDevices
    /\ \E o \in NewOutcomes :
          LET r == NetlinkTunnel_new(next_ifindex, o) IN
          /\ netlink_last' = [op |-> "new", calls |-> r.calls, result |-> r.result,
                              interface_index |-> IF r.created THEN next_ifindex ELSE 0]
          /\ devices' = IF r.created /\ ~r.deleted THEN devices \cup {next_ifindex} ELSE devices
          /\ netlink_tunnel' = IF r.result.ok THEN next_ifindex ELSE 0
          /\ next_ifindex' = IF r.created THEN next_ifindex + 1 ELSE next_ifindex
    /\ UNCHANGED << vars, connector_vars, select_vars, cache_vars, resolve_vars >>

\* A call of stop on the NetlinkTunnel that exists; the call consumes it.
StopTunnel ==
    /\ netlink_tunnel # 0
    /\ \E delete_device \in OkErr :
          LET r == stop(netlink_tunnel, delete_device) IN
          /\ netlink_last' = [op |-> "stop", calls |-> r.calls, result |-> r.result,
                              interface_index |-> netlink_tunnel]
          /\ devices' = IF r.deleted THEN devices \ {netlink_tunnel} ELSE devices
    /\ netlink_tunnel' = 0
    /\ UNCHANGED next_ifindex
    /\ UNCHANGED << vars, connector_vars, select_vars, cache_vars, resolve_vars >>

\* No device and no NetlinkTunnel, beside a tunnel state machine that has
\* not been started.
NetlinkInit == Init /\ platform = "linux"

NetlinkNext ==
    \/ NewTunnel
    \/ StopTunnel

NetlinkSpec == NetlinkInit /\ [][NetlinkNext]_netlink_vars

---------------------------------------------------------------------------
\* Reading the last step's trace

Indices == 1..Len(trace)

IsApplyConnected(e) == e.op = "apply_policy" /\ e.arg.kind = "Connected"

IsDnsSet(e) == e.op \in {"dns_monitor.set", "enable_forward"}

IsNotification(e, name) == e.op = "transition" /\ e.arg.name = name

\* The last step was Connecting handling TunnelEvent::Up, i.e. a call of
\* ConnectedState::enter.
EnterStep == prev = "Connecting" /\ stimulus.source = "event"

\* The interface of the tunnel whose Up event the last step acknowledged.
UpInterface == trace[CHOOSE i \in 1..Len(trace) : trace[i].op = "up_ack.send"].arg

\* The last step was a call of ConnectedState::handle_event.
ConnectedStep == prev = "Connected"

FirewallFailures == { i \in Indices : IsApplyConnected(trace[i]) /\ trace[i].res # "Ok" }

DnsFailures == { i \in Indices : IsDnsSet(trace[i]) /\ trace[i].res # "Ok" }

---------------------------------------------------------------------------
\* C1: a Connected notification is emitted only after an apply_policy call with
\* the Connected policy of the same tunnel has returned success earlier in the
\* same step.
C1_FirewallBeforeConnected ==
    \A i \in Indices :
        IsNotification(trace[i], "Connected") =>
            \E j \in 1..(i - 1) :
                /\ IsApplyConnected(trace[j])
                /\ trace[j].res = "Ok"
                /\ trace[j].arg.tunnel.interface = trace[i].arg.endpoint.tunnel_interface

C1_Witness ==
    /\ EnterStep
    /\ state.name = "Connected"
    /\ \E i \in Indices : IsNotification(trace[i], "Connected")

\* C2: when the Connected policy fails to apply in ConnectedState::enter, the
\* result is Disconnecting with Block(SetFirewallPolicyError), holding the
\* tunnel's close event, with the stop-sender passed on, no DNS set and no
\* Connected notification.
C2_FirewallFailureOnEnter ==
    (EnterStep /\ FirewallFailures # {}) =>
        /\ state.name = "Disconnecting"
        /\ \E i \in FirewallFailures :
              state.after_disconnect = Block(FirewallPolicyError(trace[i].res))
        /\ state.tunnel_close_event = UpInterface
        /\ \E k \in Indices :
              trace[k].op = "tunnel_close_tx.send" /\ trace[k].arg = UpInterface
        /\ live_tunnels = 1
        /\ \A i \in Indices :
              ~IsNotification(trace[i], "Connected") /\ ~IsDnsSet(trace[i])

C2_Witness ==
    EnterStep /\ FirewallFailures # {} /\ state.name = "Disconnecting"

\* C3: when the firewall applies and setting DNS fails in ConnectedState::enter,
\* the result is Disconnecting with Block(SetDnsError) and no Connected
\* notification.
C3_DnsFailureOnEnter ==
    (EnterStep /\ FirewallFailures = {} /\ DnsFailures # {}) =>
        /\ state.name = "Disconnecting"
        /\ state.after_disconnect = Block("SetDnsError")
        /\ state.tunnel_close_event = UpInterface
        /\ \A i \in Indices : ~IsNotification(trace[i], "Connected")

C3_Witness ==
    /\ EnterStep
    /\ DnsFailures # {}
    /\ \E i \in Indices : IsApplyConnected(trace[i]) /\ trace[i].res = "Ok"
    /\ state.name = "Disconnecting"

\* C4: on entry and on a Dns command, DNS is set only after the Connected
\* policy was applied with success in the same step, and not at all when that
\* apply failed.
C4_FirewallBeforeDns ==
    /\ \A i \in Indices :
          IsDnsSet(trace[i]) =>
              \E j \in 1..(i - 1) : IsApplyConnected(trace[j]) /\ trace[j].res = "Ok"
    /\ FirewallFailures # {} => \A i \in Indices : ~IsDnsSet(trace[i])
    /\ (EnterStep \/ (ConnectedStep /\ stimulus.kind = "Dns")) =>
          \A i \in Indices : \A j \in Indices :
              (IsDnsSet(trace[i]) /\ IsApplyConnected(trace[j])) => j < i

C4_Witness ==
    /\ ConnectedStep
    /\ stimulus.kind = "Dns"
    /\ state.name = "Connected"
    /\ \E i \in Indices : IsDnsSet(trace[i]) /\ trace[i].res = "Ok"

\* C5: whenever the machine goes from Disconnecting to Connecting or Error, a
\* DNS-reset call and a route-clear call have been issued since the tunnel
\* was started.  ConnectedState::enter constructs Disconnecting on its two
\* failure paths without calling reset_dns or reset_routes, so this fails.
C5_TeardownBeforeNextEntry ==
    [][(state.name = "Disconnecting" /\ state'.name \in {"Connecting", "Error"})
          => {"dns_reset", "clear_routes"} \subseteq teardown]_vars

\* C6: every Connected command carrying a completion channel has exactly one
\* send on that channel in its step.  The Dns arm returns early when the
\* firewall re-apply fails and drops the channel unsent, so this fails.
C6_AcknowledgedExactlyOnce ==
    (ConnectedStep /\ stimulus.source = "command" /\ stimulus.kind \in AckedCommands) =>
        Cardinality({ i \in Indices : trace[i].op = "complete_tx.send" }) = 1

\* The sequence of collaborator results of one consequence.
ResultsOf(c) == [i \in 1..Len(c.w.trace) |-> <<c.w.trace[i].op, c.w.trace[i].res>>]

\* C7: in every state every stimulus yields a consequence, each one SameState
\* or NewState, and the consequence is a function of the state, the shared
\* context, the stimulus and the results the collaborators returned.
C7_TotalAndDeterministic ==
    \A stim \in Stimuli(state) :
        LET cs == Consequences(state, stim, World)
        IN  /\ cs # {}
            /\ \A c \in cs : c.kind \in {"SameState", "NewState"}
            /\ \A c1 \in cs : \A c2 \in cs :
                  ResultsOf(c1) = ResultsOf(c2) => c1 = c2

C7_Witness ==
    /\ state.name = "Connected"
    /\ \A k \in {"Connect", "Disconnect", "Block", "AllowLan", "Dns", "Connectivity", "None"} :
          \E stim \in Stimuli(state) : stim.source = "command" /\ stim.kind = k
    /\ \E stim \in Stimuli(state) : stim.source = "event"
    /\ \E stim \in Stimuli(state) : stim.source = "close"
    /\ \E stim \in Stimuli(state) :
          Cardinality(Consequences(state, stim, World)) > 1

\* The stop-sender of the held tunnel was used in the last step.
StopSent ==
    \E k \in Indices :
        trace[k].op = "tunnel_close_tx.send" /\ trace[k].arg = state.tunnel_close_event

\* C8: at most one tunnel is live; Connecting, Connected and Disconnecting-with-
\* a-tunnel hold the close event of the one live tunnel, Disconnected and Error
\* hold none and are entered only with no tunnel live; leaving Connected either
\* hands the close event to Disconnecting with the stop sent, or follows the
\* close event resolving.
C8_SingleTunnelOwnership ==
    /\ live_tunnels <= 1
    /\ state.name \in {"Disconnected", "Error"} =>
          live_tunnels = 0 /\ state.tunnel_close_event = 0
    /\ state.name \in {"Connecting", "Connected"} =>
          live_tunnels = 1 /\ state.tunnel_close_event # 0
    /\ state.name = "Disconnecting" =>
          live_tunnels = (IF state.tunnel_close_event # 0 THEN 1 ELSE 0)
    /\ (state.name = "Connecting" /\ prev # "Connecting" /\ prev # "Disconnected") =>
          stimulus.source = "close"
    /\ (ConnectedStep /\ state.name # "Connected") =>
          \/ state.name = "Disconnecting" /\ state.tunnel_close_event # 0 /\ StopSent
          \/ stimulus.source = "close"

C8_Witness ==
    /\ ConnectedStep
    /\ stimulus.source = "event"
    /\ state.name = "Disconnecting"
    /\ StopSent
    /\ live_tunnels = 1

\* The fatal cause met by the last step of Connected, "none" when there is none.
FatalCause ==
    IF ~ConnectedStep THEN "none"
    ELSE IF stimulus.source = "close"
         THEN CloseBlockReason([kind |-> stimulus.kind, arg |-> stimulus.arg])
    ELSE IF FirewallFailures # {}
         THEN FirewallPolicyError(trace[CHOOSE i \in FirewallFailures : TRUE].res)
    ELSE IF DnsFailures # {} THEN "SetDnsError"
    ELSE IF stimulus.kind = "Connectivity" /\ stimulus.arg = "Offline" THEN "IsOffline"
    ELSE "none"

\* C9 as stated: every fatal cause met in Connected, the tunnel-reported one
\* included, takes the machine to Disconnecting with Block(cause).
C9_FatalViaDisconnecting ==
    FatalCause # "none" =>
        state.name = "Disconnecting" /\ state.after_disconnect = Block(FatalCause)

\* C9, amended: a firewall failure, a DNS failure or going offline in Connected
\* leads to Disconnecting with Block(cause), from which the only state entered
\* is Error with that cause; a fatal cause carried by the close event leads
\* from Connected directly to Error with that cause.  Connecting is entered in
\* neither case.
C9_FatalNeverRetried ==
    /\ [](FatalCause # "none" =>
            IF stimulus.source = "close"
            THEN state.name = "Error" /\ state.block_reason = FatalCause
            ELSE state.name = "Disconnecting" /\ state.after_disconnect = Block(FatalCause))
    /\ [][(state.name = "Disconnecting" /\ state.after_disconnect.kind = "Block") =>
            \/ state'.name = "Disconnecting" /\ state'.after_disconnect = state.after_disconnect
            \/ state'.name = "Error" /\ state'.block_reason = state.after_disconnect.cause]_vars

C9_Witness ==
    /\ state.name = "Error"
    /\ prev = "Disconnecting"
    /\ state.block_reason = "IsOffline"

\* C10: a close before Up in Connecting with attempt n below the ceiling
\* re-enters Connecting with n + 1, one at the ceiling enters Error, and the
\* attempt counter never exceeds the ceiling.
C10_RetryCeiling ==
    /\ [](state.retry_attempt <= RetryCeiling)
    /\ [][(state.name = "Connecting" /\ stimulus'.source = "close") =>
            IF state.retry_attempt < RetryCeiling
            THEN state'.name = "Connecting" /\ state'.retry_attempt = state.retry_attempt + 1
            ELSE state'.name = "Error"]_vars

C10_Witness ==
    /\ state.name = "Error"
    /\ prev = "Connecting"
    /\ stimulus.source = "close"

\* The step just taken left Disconnecting on its close event.
AfterDisconnectDispatch(after) ==
    CASE after.kind = "Nothing" -> state'.name = "Disconnected"
      [] after.kind = "Reconnect" ->
            state'.name = "Connecting" /\ state'.retry_attempt = after.n
      [] after.kind = "Block" ->
            state'.name = "Error" /\ state'.block_reason = after.cause

\* C11: Disconnecting is left only when the close event resolves, and the state
\* entered then is the one the stored AfterDisconnect names: Nothing gives
\* Disconnected, Reconnect(n) Connecting with attempt n, Block(cause) Error
\* with that cause.
C11_AfterDisconnectDispatch ==
    [][state.name = "Disconnecting" =>
          /\ stimulus'.source = "close" =>
                state'.name # "Disconnecting" /\ AfterDisconnectDispatch(state.after_disconnect)
          /\ stimulus'.source # "close" => state'.name = "Disconnecting"]_vars

C11_Witness ==
    /\ prev = "Disconnecting"
    /\ stimulus.source = "close"
    /\ state.name = "Connecting"
    /\ state.retry_attempt = 0

\* C12: Scenario B, step by step.  Connectivity(Offline) in Connected gives
\* Disconnecting/Block(IsOffline); the close resolving there gives
\* Error(IsOffline); Connect in Error gives Disconnecting/Reconnect(0); the
\* close resolving there gives Connecting(0).  Error holds no tunnel.
C12_ScenarioB ==
    /\ []((ConnectedStep /\ stimulus.source = "command" /\ stimulus.kind = "Connectivity"
             /\ stimulus.arg = "Offline") =>
            state.name = "Disconnecting" /\ state.after_disconnect = Block("IsOffline"))
    /\ [](state.name = "Error" => live_tunnels = 0 /\ state.tunnel_close_event = 0)
    /\ [][(state.name = "Disconnecting" /\ state.after_disconnect = Block("IsOffline")
             /\ stimulus'.source = "close") =>
            state'.name = "Error" /\ state'.block_reason = "IsOffline"]_vars
    /\ [][(state.name = "Error" /\ stimulus'.source = "command" /\ stimulus'.kind = "Connect") =>
            state'.name = "Disconnecting" /\ state'.after_disconnect = Reconnect(0)]_vars
    /\ [][(state.name = "Disconnecting" /\ state.after_disconnect = Reconnect(0)
             /\ stimulus'.source = "close") =>
            state'.name = "Connecting" /\ state'.retry_attempt = 0]_vars

\* The end of Scenario B: Connecting(0) entered from Disconnecting while the
\* shared context still records the offline status that began it.
C12_Witness ==
    /\ state.name = "Connecting"
    /\ state.retry_attempt = 0
    /\ prev = "Disconnecting"
    /\ stimulus.source = "close"
    /\ shared.connectivity = "Offline"
    /\ sessions = 2

IsDnsReset(e) == e.op \in {"dns_monitor.reset_before_interface_removal", "disable_forward"}

IsRouteClear(e) == e.op = "clear_routes"

\* The step being taken is Connected handling the command `kind`.
ConnectedCommand(kind) ==
    state.name = "Connected" /\ stimulus'.source = "command" /\ stimulus'.kind = kind

\* The step being taken issued a DNS reset and a route clear after entry i of
\* its trace.
TeardownAfter(i) ==
    /\ \E j \in (i + 1)..Len(trace') : IsDnsReset(trace'[j])
    /\ \E j \in (i + 1)..Len(trace') : IsRouteClear(trace'[j])

FirewallCauses == {"SetFirewallPolicyError(Locked)", "SetFirewallPolicyError(Generic)"}

\* C13: off Android, an AllowLan command with a value other than the current
\* one stores the value and re-applies the Connected policy once; when the
\* apply succeeds the state is unchanged, when it fails DNS is reset, routes
\* are cleared and the result is Disconnecting/Block(SetFirewallPolicyError),
\* which the close event turns into Error with that cause.
C13_AllowLanReapply ==
    /\ [][(ConnectedCommand("AllowLan") /\ platform # "android"
             /\ shared.allow_lan # Bool(stimulus'.arg)) =>
            LET applies == { i \in 1..Len(trace') : IsApplyConnected(trace'[i]) }
            IN  /\ shared'.allow_lan = Bool(stimulus'.arg)
                /\ Cardinality(applies) = 1
                /\ \A i \in applies :
                      /\ trace'[i].arg.allow_lan = shared'.allow_lan
                      /\ IF trace'[i].res = "Ok"
                         THEN /\ state' = state
                              /\ firewall' = trace'[i].arg
                              /\ \A j \in 1..Len(trace') :
                                    ~IsDnsReset(trace'[j]) /\ ~IsRouteClear(trace'[j])
                         ELSE /\ state'.name = "Disconnecting"
                              /\ state'.after_disconnect =
                                    Block(FirewallPolicyError(trace'[i].res))
                              /\ TeardownAfter(i)]_vars
    /\ [][(state.name = "Disconnecting" /\ state.after_disconnect.kind = "Block"
             /\ state.after_disconnect.cause \in FirewallCauses
             /\ state'.name # "Disconnecting") =>
            state'.name = "Error" /\ state'.block_reason = state.after_disconnect.cause]_vars

C13_Witness ==
    /\ ConnectedStep
    /\ stimulus.kind = "AllowLan"
    /\ platform # "android"
    /\ FirewallFailures # {}
    /\ state.name = "Disconnecting"
    /\ shared.allow_lan

\* C14: off Android, a Dns command with servers other than the current ones
\* stores them, re-applies the Connected policy and then sets DNS: both
\* succeeding leaves the state unchanged, the firewall failing gives
\* Disconnecting/Block(SetFirewallPolicyError) with no DNS set, DNS failing
\* after the firewall gives Disconnecting/Block(SetDnsError).
C14_DnsReapply ==
    [][(ConnectedCommand("Dns") /\ platform # "android"
          /\ shared.dns_config # stimulus'.arg) =>
         LET applies == { i \in 1..Len(trace') : IsApplyConnected(trace'[i]) }
             sets == { i \in 1..Len(trace') : IsDnsSet(trace'[i]) }
         IN  /\ shared'.dns_config = stimulus'.arg
             /\ Cardinality(applies) = 1
             /\ \A i \in applies :
                   /\ trace'[i].arg.dns_config.config = stimulus'.arg
                   /\ IF trace'[i].res # "Ok"
                      THEN /\ sets = {}
                           /\ state'.name = "Disconnecting"
                           /\ state'.after_disconnect =
                                 Block(FirewallPolicyError(trace'[i].res))
                      ELSE /\ Cardinality(sets) = 1
                           /\ \A k \in sets :
                                 /\ i < k
                                 /\ trace'[k].arg.config = stimulus'.arg
                                 /\ IF trace'[k].res = "Ok"
                                    THEN state' = state
                                    ELSE /\ state'.name = "Disconnecting"
                                         /\ state'.after_disconnect = Block("SetDnsError")]_vars

C14_Witness ==
    /\ ConnectedStep
    /\ stimulus.kind = "Dns"
    /\ platform # "android"
    /\ FirewallFailures = {}
    /\ DnsFailures # {}
    /\ state.name = "Disconnecting"
    /\ state.after_disconnect = Block("SetDnsError")

\* C15: a Connectivity command in Connected stores the status; offline gives
\* Disconnecting/Block(IsOffline), anything else leaves the state unchanged and
\* calls no collaborator.
C15_Connectivity ==
    [][ConnectedCommand("Connectivity") =>
         /\ shared'.connectivity = stimulus'.arg
         /\ IF stimulus'.arg = "Offline"
            THEN state'.name = "Disconnecting" /\ state'.after_disconnect = Block("IsOffline")
            ELSE /\ state' = state
                 /\ trace' = << >>
                 /\ firewall' = firewall /\ dns' = dns /\ teardown' = teardown]_vars

C15_Witness ==
    /\ ConnectedStep
    /\ stimulus.source = "command"
    /\ stimulus.kind = "Connectivity"
    /\ stimulus.arg = "Online"
    /\ state.name = "Connected"
    /\ shared.connectivity = "Online"

\* C16: a Connect command in Connected gives Disconnecting/Reconnect(0), and the
\* close event resolving on a stored Reconnect(0) gives Connecting with
\* attempt counter 0.
C16_ConnectReconnects ==
    /\ [][ConnectedCommand("Connect") =>
            /\ state'.name = "Disconnecting"
            /\ state'.after_disconnect = Reconnect(0)
            /\ state'.tunnel_close_event = state.tunnel_close_event]_vars
    /\ [][(state.name = "Disconnecting" /\ state.after_disconnect = Reconnect(0)
             /\ state.tunnel_close_event # 0 /\ state'.name # "Disconnecting") =>
            state'.name = "Connecting" /\ state'.retry_attempt = 0]_vars

C16_Witness ==
    /\ ConnectedStep
    /\ stimulus.source = "command"
    /\ stimulus.kind = "Connect"
    /\ state.name = "Disconnecting"
    /\ state.after_disconnect = Reconnect(0)

\* What handle_commands yields in the current state for the command x.
OnCommand(x) == handle_commands(state, Stimulus("command", x), World)

\* C17: in Connected the command channel closing has the consequences of a
\* Disconnect command: DNS reset, routes cleared, Disconnecting with
\* AfterDisconnect::Nothing.
C17_ClosureAsDisconnect ==
    state.name = "Connected" =>
        /\ OnCommand(ChannelClosed) = OnCommand([kind |-> "Disconnect", arg |-> "none"])
        /\ OnCommand(ChannelClosed) # {}
        /\ \A c \in OnCommand(ChannelClosed) :
              /\ c.kind = "NewState"
              /\ c.state.name = "Disconnecting"
              /\ c.state.after_disconnect = Nothing
              /\ \E i \in 1..Len(c.w.trace) : IsDnsReset(c.w.trace[i])
              /\ \E i \in 1..Len(c.w.trace) : IsRouteClear(c.w.trace[i])

C17_Witness ==
    /\ ConnectedStep
    /\ stimulus.source = "command"
    /\ stimulus.kind = "None"
    /\ commands_closed
    /\ state.name = "Disconnecting"
    /\ state.after_disconnect = Nothing

\* C18: a Block(reason) command in Connected gives Disconnecting with
\* AfterDisconnect::Block(reason), and the Error state entered from a stored
\* Block(reason) carries that reason.
C18_BlockKeepsReason ==
    /\ [][ConnectedCommand("Block") =>
            /\ state'.name = "Disconnecting"
            /\ state'.after_disconnect = Block(stimulus'.arg)
            /\ state'.tunnel_close_event = state.tunnel_close_event]_vars
    /\ [][(state.name = "Disconnecting" /\ state.after_disconnect.kind = "Block"
             /\ state.after_disconnect.cause \in BlockReasons) =>
            /\ state'.name \in {"Disconnecting", "Error"}
            /\ state'.name = "Disconnecting" => state'.after_disconnect = state.after_disconnect
            /\ state'.name = "Error" => state'.block_reason = state.after_disconnect.cause]_vars

C18_Witness ==
    /\ ConnectedStep
    /\ stimulus.source = "command"
    /\ stimulus.kind = "Block"
    /\ state.name = "Disconnecting"
    /\ state.after_disconnect = Block(stimulus.arg)

\* The positions in the trace of the step being taken where the next state's
\* entry acts: the stop sent to the tunnel, a policy applied, a tunnel started.
EntryActions ==
    { i \in 1..Len(trace') :
        \/ trace'[i].op \in {"tunnel_close_tx.send", "start_tunnel", "transition"}
        \/ trace'[i].op = "apply_policy" /\ trace'[i].arg.kind # "Connected" }

\* Both resets were issued, and before every entry action of the next state.
TeardownBeforeEntry ==
    /\ \E j \in 1..Len(trace') : IsDnsReset(trace'[j])
    /\ \E j \in 1..Len(trace') : IsRouteClear(trace'[j])
    /\ \A j \in 1..Len(trace') : \A i \in EntryActions :
          (IsDnsReset(trace'[j]) \/ IsRouteClear(trace'[j])) => j < i

\* C19: TunnelEvent::Down, or the tunnel-event channel closing, in Connected
\* gives Disconnecting/Reconnect(0) after a DNS reset and a route clear.
C19_TunnelDownReconnects ==
    [][(state.name = "Connected" /\ stimulus'.source = "event"
          /\ stimulus'.kind \in {"Down", "None"}) =>
         /\ state'.name = "Disconnecting"
         /\ state'.after_disconnect = Reconnect(0)
         /\ state'.tunnel_close_event = state.tunnel_close_event
         /\ TeardownBeforeEntry]_vars

C19_Witness ==
    /\ ConnectedStep
    /\ stimulus.source = "event"
    /\ stimulus.kind = "None"
    /\ state.name = "Disconnecting"
    /\ state.after_disconnect = Reconnect(0)
    /\ {"dns_reset", "clear_routes"} \subseteq teardown

\* C20: the close event resolving in Connected resets DNS and clears routes and
\* then, with a cause, enters Error with that cause directly, and without one
\* (or with the close event cancelled) enters Connecting with attempt 0.
C20_CloseInConnected ==
    [][(state.name = "Connected" /\ stimulus'.source = "close") =>
         /\ TeardownBeforeEntry
         /\ \A i \in 1..Len(trace') : ~IsNotification(trace'[i], "Disconnecting")
         /\ IF stimulus'.kind = "Ok" /\ stimulus'.arg # "none"
            THEN state'.name = "Error" /\ state'.block_reason = stimulus'.arg
            ELSE state'.name = "Connecting" /\ state'.retry_attempt = 0]_vars

C20_Witness ==
    /\ ConnectedStep
    /\ stimulus.source = "close"
    /\ stimulus.arg # "none"
    /\ state.name = "Error"
    /\ state.block_reason = stimulus.arg
    /\ \E i \in Indices : IsDnsReset(trace[i])

IsTeardownCall(e) == IsDnsReset(e) \/ IsRouteClear(e) \/ e.op = "clear_routing_rules"

\* The collaborator results of a consequence, those of the teardown calls left out.
OtherResultsOf(c) ==
    LET kept == SelectSeq(c.w.trace, LAMBDA e : ~IsTeardownCall(e))
    IN  [i \in 1..Len(kept) |-> <<kept[i].op, kept[i].res>>]

\* C21: every step that leaves Connected issues the DNS reset and then the
\* route clear before the next state's entry, and what the resets return has
\* no influence on the consequence: two consequences of one stimulus that
\* differ only in the resets' results give the same state and transition.
C21_BestEffortTeardown ==
    /\ [](state.name = "Connected" =>
            \A stim \in Stimuli(state) :
                \A c1 \in handle_event_result(state, stim, World) :
                    \A c2 \in handle_event_result(state, stim, World) :
                        OtherResultsOf(c1) = OtherResultsOf(c2) =>
                            /\ c1.kind = c2.kind
                            /\ c1.state = c2.state
                            /\ c1.transition = c2.transition)
    /\ [][(state.name = "Connected" /\ state'.name # "Connected") =>
            /\ TeardownBeforeEntry
            /\ \A i \in 1..Len(trace') : \A j \in 1..Len(trace') :
                  (IsDnsReset(trace'[i]) /\ IsRouteClear(trace'[j])) => i < j]_vars

C21_Witness ==
    /\ ConnectedStep
    /\ state.name = "Disconnecting"
    /\ \E i \in Indices : IsDnsReset(trace[i]) /\ trace[i].res = "Err"
    /\ \E i \in Indices : IsRouteClear(trace[i]) /\ trace[i].res = "Err"
    /\ {"dns_reset", "clear_routes"} \subseteq teardown

\* C23: in Disconnected with block_when_disconnected set, the applied firewall
\* policy is the blocking one; a BlockWhenDisconnected command in Connected
\* stores the flag and changes neither the state nor the applied policy, so
\* the flag is in place when Disconnected is next entered.
C23_BlockedWhileIdle ==
    /\ []((state.name = "Disconnected" /\ shared.block_when_disconnected) =>
            firewall = BlockedPolicy)
    /\ [][ConnectedCommand("BlockWhenDisconnected") =>
            /\ shared'.block_when_disconnected = Bool(stimulus'.arg)
            /\ state' = state
            /\ firewall' = firewall]_vars

C23_Witness ==
    /\ state.name = "Disconnected"
    /\ prev = "Disconnecting"
    /\ shared.block_when_disconnected
    /\ firewall = BlockedPolicy
    /\ sessions >= 1

\* C24: no command makes Disconnecting leave; a Block(reason) command replaces
\* a stored Nothing or Reconnect by Block(reason), and the close event then
\* leads to Error with that reason.
C24_BlockOverridesPending ==
    /\ [][(state.name = "Disconnecting" /\ stimulus'.source = "command") =>
            /\ state'.name = "Disconnecting"
            /\ state'.tunnel_close_event = state.tunnel_close_event
            /\ (stimulus'.kind = "Block"
                  /\ state.after_disconnect.kind \in {"Nothing", "Reconnect"}) =>
                  state'.after_disconnect = Block(stimulus'.arg)
            /\ stimulus'.kind # "Block" => state'.after_disconnect = state.after_disconnect]_vars
    /\ [][(state.name = "Disconnecting" /\ state.after_disconnect.kind = "Block"
             /\ stimulus'.source = "close") =>
            /\ state'.name = "Error"
            /\ state'.block_reason = state.after_disconnect.cause]_vars

C24_Witness ==
    /\ prev = "Disconnecting"
    /\ state.name = "Disconnecting"
    /\ stimulus.source = "command"
    /\ stimulus.kind = "Block"
    /\ state.after_disconnect = Block(stimulus.arg)
    /\ \A i \in Indices : ~IsNotification(trace[i], "Disconnecting")

C27_ClientsForProxyOrObfuscator ==
    (state.name = "Connected" /\ platform # "windows") =>
        firewall.peer_endpoint.clients =
            IF state.tunnel_parameters.proxy \/ state.tunnel_parameters.obfuscation # "none"
            THEN "All"
            ELSE "Root"

\* C28: every Connected policy handed to the firewall names the next hop as
\* its peer: the obfuscator's endpoint when the tunnel has an obfuscation
\* config, otherwise the entry peer over UDP, and never the exit peer.
C28_PeerIsNextHop ==
    [][\A i \in 1..Len(trace') :
          IsApplyConnected(trace'[i]) =>
              /\ trace'[i].arg.peer_endpoint.endpoint =
                    IF state.tunnel_parameters.obfuscation # "none"
                    THEN [address |-> "obfuscator", protocol |-> "Tcp"]
                    ELSE [address |-> "entry_peer", protocol |-> "Udp"]
              /\ trace'[i].arg.peer_endpoint.endpoint.address # "exit_peer"]_vars

C28_Witness ==
    /\ state.name = "Connected"
    /\ state.tunnel_parameters.exit_peer # "none"
    /\ state.tunnel_parameters.obfuscation # "none"
    /\ firewall.peer_endpoint.endpoint.address = "obfuscator"

\* The step's trace is the completion-channel send of its command and nothing else.
OnlyCompletion ==
    /\ Len(trace') = 1
    /\ trace'[1].op = "complete_tx.send"
    /\ trace'[1].arg = stimulus'.kind

\* The step left the state, what the collaborators hold and the tunnels alone.
NothingApplied ==
    /\ state' = state
    /\ firewall' = firewall
    /\ dns' = dns
    /\ teardown' = teardown
    /\ live_tunnels' = live_tunnels

\* C33: in Connected an AllowLan or Dns command carrying the value the shared
\* context already holds calls no collaborator, emits no transition, leaves
\* the state and the shared context as they were and sends on the command's
\* completion channel exactly once.
C33_UnchangedValueIsNoOp ==
    [][(\/ ConnectedCommand("AllowLan") /\ shared.allow_lan = Bool(stimulus'.arg)
        \/ ConnectedCommand("Dns") /\ shared.dns_config = stimulus'.arg) =>
         /\ OnlyCompletion
         /\ NothingApplied
         /\ shared' = shared]_vars

C33_Witness ==
    /\ ConnectedStep
    /\ stimulus.kind = "AllowLan"
    /\ shared.allow_lan = Bool(stimulus.arg)
    /\ state.name = "Connected"
    /\ Len(trace) = 1
    /\ trace[1].op = "complete_tx.send"

\* C34: in Connected an AllowEndpoint or BlockWhenDisconnected command
\* overwrites its own field of the shared context and nothing else, sends on
\* its completion channel, and calls no collaborator, emits no transition and
\* leaves the state and the tunnel alone.
C34_StoreOnlyCommands ==
    [][(ConnectedCommand("AllowEndpoint") \/ ConnectedCommand("BlockWhenDisconnected")) =>
         /\ OnlyCompletion
         /\ NothingApplied
         /\ shared' = IF stimulus'.kind = "AllowEndpoint"
                      THEN [shared EXCEPT !.allowed_endpoint = stimulus'.arg]
                      ELSE [shared EXCEPT !.block_when_disconnected = Bool(stimulus'.arg)]]_vars

C34_Witness ==
    /\ ConnectedStep
    /\ stimulus.kind = "AllowEndpoint"
    /\ shared.allowed_endpoint = stimulus.arg
    /\ shared.allowed_endpoint # InitShared.allowed_endpoint
    /\ state.name = "Connected"
    /\ Len(trace) = 1

\* C35: in Connected a close event that resolves cancelled, the tunnel monitor
\* having dropped the sender, is handled as a close without cause: DNS is
\* reset, routes are cleared and Connecting is entered with attempt 0; Error
\* is not entered and no Error notification is emitted.
C35_CanceledCloseReconnects ==
    [][(state.name = "Connected" /\ stimulus'.source = "close"
          /\ stimulus'.kind = "Canceled") =>
         /\ \E i \in 1..Len(trace') : \E j \in 1..Len(trace') :
               /\ IsDnsReset(trace'[i])
               /\ IsRouteClear(trace'[j])
               /\ \E k \in 1..Len(trace') : trace'[k].op = "start_tunnel" /\ i < k /\ j < k
         /\ state'.name = "Connecting"
         /\ state'.retry_attempt = 0
         /\ state'.block_reason = "none"
         /\ \A i \in 1..Len(trace') : ~IsNotification(trace'[i], "Error")]_vars

C35_Witness ==
    /\ ConnectedStep
    /\ stimulus.source = "close"
    /\ stimulus.kind = "Canceled"
    /\ state.name = "Connecting"
    /\ state.retry_attempt = 0
    /\ \E i \in Indices : IsDnsReset(trace[i])
    /\ \E i \in Indices : IsRouteClear(trace[i])

\* C36: in Connected a tunnel event other than Down (an Up, say) changes
\* nothing: the state, the shared context and what the collaborators hold
\* stay, no call is made, no transition is emitted and the event's
\* acknowledgment sender is not sent on.
C36_OtherEventsIgnored ==
    [][(state.name = "Connected" /\ stimulus'.source = "event"
          /\ stimulus'.kind \notin {"Down", "None"}) =>
         /\ NothingApplied
         /\ shared' = shared
         /\ trace' = << >>]_vars

C36_Witness ==
    /\ ConnectedStep
    /\ stimulus.source = "event"
    /\ stimulus.kind = "Up"
    /\ state.name = "Connected"
    /\ trace = << >>

----------------------------------------------------------------------------
\* Claims about the API connector

\* The stream handles created so far.
Registered == 1..(next_handle - 1)

\* The step is the request task processing a request of this kind.
Processing(kind) == connector_event'.op = "request" /\ connector_event'.request.kind = kind

\* C30: when the request task has processed a Reset, every stream handle
\* registered until then is closed, the connector's list of stream handles is
\* empty and the connection mode is the one it was before.
C30_ResetClosesStreams ==
    [][Processing("Reset") =>
          /\ \A h \in Registered : h \in closed'
          /\ stream_handles' = << >>
          /\ proxy_config' = proxy_config]_connector_vars

C30_Witness ==
    /\ connector_event.op = "request"
    /\ connector_event.request.kind = "Reset"
    /\ Len(connector_event.handles) = 1
    /\ HandlesIn(connector_event.handles) \subseteq closed
    /\ stream_handles = << >>
    /\ proxy_config.kind = "Socks5"

\* The call is waiting for its connection and a request has been processed
\* since it read the connection mode.
Interrupted(c) == calls[c].pc = "connecting" /\ calls[c].notified

\* The step of an interrupted call drops the attempt and reads the mode anew.
Abandoned(c) ==
    /\ calls'[c].pc = "connecting"
    /\ ~calls'[c].notified
    /\ calls'[c].mode = proxy_config

\* A request processed while calls wait reaches every one of them.
NoneMissed ==
    connector_event'.op = "request" =>
        \A c \in CallIds : calls[c].pc = "connecting" => calls'[c].notified

\* C31: a request processed while call waits for its connection makes call
\* abandon that attempt and start over with the connection mode of that
\* moment; no waiting call misses the notification, and no attempt that was
\* interrupted yields the stream or the error call returns.
C31_InterruptedAttemptRestarts ==
    [][/\ NoneMissed
       /\ \A c \in CallIds :
             Interrupted(c) /\ calls'[c] # calls[c] => Abandoned(c)]_connector_vars

\* The part of C31 that holds: the notification is never missed, and a call
\* that takes the notification starts over with the current mode.
C31_NotifiedAndRestarting ==
    [][/\ NoneMissed
       /\ \A c \in CallIds :
             Interrupted(c) /\ calls'[c].pc = "connecting" /\ ~calls'[c].notified
                 => calls'[c].mode = proxy_config]_connector_vars

\* An interrupted attempt has given call its stream.
C31_InterruptedAttemptReturned ==
    \E c \in CallIds :
        /\ calls[c].pc = "returned"
        /\ calls[c].mode # proxy_config
        /\ calls[c].handle \notin closed
        /\ ~calls[c].reset_after

\* C37: a stream that call has returned is closed once a request has been
\* processed after its connection was established, whether the request came
\* before or after its handle was pushed.
C37_NoStreamEscapesReset ==
    \A c \in CallIds :
        calls[c].pc = "returned" /\ calls[c].reset_after => calls[c].handle \in closed

\* What holds of the code: the requests processed after the handle was
\* pushed close the stream.
C37_RegisteredStreamsClosed ==
    [][connector_event'.op = "request" =>
          \A c \in CallIds : calls[c].pc = "returned" => calls[c].handle \in closed']_connector_vars

\* C38: processing a SetConnectionMode stores the converted mode when the
\* configuration converts and keeps the previous mode when its cipher is not
\* recognised; either way every registered stream is closed, the list of
\* stream handles is emptied and the waiting calls are notified. Until a
\* request is processed the connector is in Direct mode.
C38_SetConnectionModeApplies ==
    /\ [](requests_sent = 0 => proxy_config = DirectMode)
    /\ [][Processing("SetConnectionMode") =>
            LET config == connector_event'.request.config IN
            /\ proxy_config' = IF config = "ShadowsocksUnknownCipher" THEN proxy_config
                               ELSE try_from(config).mode
            /\ proxy_config'.kind \in {"Direct", "Shadowsocks", "Socks5", "EncryptedDnsProxy"}
            /\ \A h \in HandlesIn(stream_handles) : h \in closed'
            /\ stream_handles' = << >>
            /\ \A c \in CallIds : calls[c].pc = "connecting" => calls'[c].notified
       ]_connector_vars

C38_Witness ==
    /\ connector_event.op = "request"
    /\ connector_event.request = SetConnectionModeRequest("ShadowsocksUnknownCipher")
    /\ proxy_config.kind = "Socks5"
    /\ Len(connector_event.handles) = 1
    /\ HandlesIn(connector_event.handles) \subseteq closed

----------------------------------------------------------------------------
\* Claims about the select of ConnectedState::handle_event

\* What handle_event calls have received from a source, in order.
DeliveredFrom(src) == SelectSeq(delivered, LAMBDA d : d.source = src)

\* What a source holds for the next handle_event calls, in order.
PendingOf(src) ==
    CASE src = "command" -> [i \in 1..Len(commands) |-> Stimulus("command", commands[i])]
      [] src = "event" -> [i \in 1..Len(tunnel_events) |-> Stimulus("event", tunnel_events[i])]
      [] src = "close" -> IF close_event = PendingClose THEN << >>
                          ELSE << Stimulus("close", close_event) >>

\* Nothing sent is lost or overtaken within its source.
NothingLost == \A src \in Sources : DeliveredFrom(src) \o PendingOf(src) = sent[src]

\* Every ready source can be the one the next call receives from.
NoPriority == state.name = "Connected" => \A src \in Ready : ENABLED SelectFrom(src)

\* A handle_event call receives the head of exactly one ready source and
\* handles it; the other sources keep what they hold.
OnePerCall ==
    delivered' # delivered =>
        \E src \in Ready :
            /\ delivered' = Append(delivered, Yielded(src))
            /\ stimulus' = Yielded(src)
            /\ PendingOf(src)' = Tail(PendingOf(src))
            /\ \A other \in Sources \ {src} : PendingOf(other)' = PendingOf(other)

\* No source stays ready forever while the state is Connected: with
\* NothingLost, whatever a source holds is received by a later call unless the
\* state is left first.
LaterDelivered ==
    \A src \in Sources : []<>(state.name # "Connected" \/ src \notin Ready)

\* C22: in Connected each handle_event call consumes exactly one stimulus,
\* from any one of the sources that are ready; what was ready and not chosen
\* stays in its source in order and is consumed by a later call unless the
\* state stops being Connected.
C22_OneStimulusPerCall ==
    /\ []NothingLost
    /\ []NoPriority
    /\ [][OnePerCall]_all_vars
    /\ LaterDelivered

C22_Witness ==
    /\ state.name = "Connected"
    /\ Len(delivered) = 2
    /\ Len(sent.command) = 2
    /\ Len(commands) = 1
    /\ delivered[1].source = "event"
    /\ delivered[2] = sent.command[1]
    /\ tunnel_events # << >>

----------------------------------------------------------------------------
\* Claims about the cached API connection mode

\* The modes whose serialization is the text the last read found.
StoredModes ==
    { mode \in ApiConnectionModes :
        cache_read.file.read = "Ok" /\ cache_read.file.text = to_string_pretty(mode) }

\* C32: try_from_cache always returns a mode: the stored one when the file
\* holds a serialized mode, Direct when the file is missing, unreadable or
\* not deserializable. from_cache returns Ok(Direct) for a missing file, the
\* stored mode for a file that holds one, and Err for every other failure
\* to read or deserialize.
C32_CacheReadFallsBackToDirect ==
    /\ cache_read.op = "try_from_cache" =>
          /\ cache_read.result.ok
          /\ cache_read.result.value =
                IF StoredModes = {} THEN "Direct" ELSE CHOOSE mode \in StoredModes : TRUE
    /\ cache_read.op = "from_cache" =>
          /\ cache_read.file.read = "NotFound" =>
                cache_read.result = [ok |-> TRUE, value |-> "Direct"]
          /\ cache_read.file.read # "NotFound" /\ StoredModes = {} => ~cache_read.result.ok
          /\ StoredModes # {} =>
                cache_read.result = [ok |-> TRUE, value |-> CHOOSE mode \in StoredModes : TRUE]

C32_Witness ==
    /\ cache_read.op = "try_from_cache"
    /\ cache_read.file.read = "Ok"
    /\ cache_read.file.text \in OtherTexts
    /\ cache_read.result.value = "Direct"

----------------------------------------------------------------------------
\* Claims about resolve_address

\* The hosts that are IP literals, and the address each one writes.
IpLiterals == {"192.0.2.1", "[2001:db8::1]"}

LiteralIp(host) == IF host = "[2001:db8::1]" THEN "2001:db8::1" ELSE host

\* The port the result carries for an address of the resolver.
StatedPort(addr) ==
    IF resolve_uri.port.some THEN resolve_uri.port.port
    ELSE IF addr.port # 0 THEN addr.port
    ELSE 443

\* The result is the one stated for the URI and the resolver's answer.
ResolvesAsStated ==
    /\ resolve_uri.host = "none" =>
          ~resolve_result.ok /\ resolve_result.error = "InvalidInput"
    /\ resolve_uri.host \in IpLiterals =>
          /\ resolve_result.ok
          /\ resolve_result.ip = LiteralIp(resolve_uri.host)
          /\ resolve_result.port = (IF resolve_uri.port.some THEN resolve_uri.port.port ELSE 443)
          /\ ~resolve_result.resolver_called
    /\ resolve_uri.host \notin IpLiterals \cup {"none"} =>
          /\ resolve_result.resolver_called
          /\ dns_answer.ok /\ dns_answer.addrs = << >> => ~resolve_result.ok
          /\ dns_answer.ok /\ dns_answer.addrs # << >> =>
                /\ resolve_result.ok
                /\ resolve_result.ip = dns_answer.addrs[1].ip
                /\ resolve_result.port = StatedPort(dns_answer.addrs[1])

\* C39: resolve_address fails with InvalidInput for a URI without host, uses
\* the IP of a host that is an IP literal without asking the resolver, and
\* otherwise uses the first address of the resolver's answer, an empty answer
\* being an error; the port is the URI's if it has one, else the resolved
\* address's if that is not 0, else 443.
C39_ResolveAddress == resolve_result.done => ResolvesAsStated

\* The same for every host but an IPv6 literal.
C39_OtherHosts ==
    resolve_result.done /\ resolve_uri.host # "[2001:db8::1]" => ResolvesAsStated

\* resolve_address has asked the resolver about an IPv6 literal.
C39_Ipv6LiteralResolved ==
    /\ resolve_result.done
    /\ resolve_uri.host = "[2001:db8::1]"
    /\ resolve_result.resolver_called

----------------------------------------------------------------------------
\* Claims about NetlinkTunnel

\* The positions of the made of an operation in the last NetlinkTunnel function.
CallsOf(made, op) == { i \in 1..Len(made) : made[i].op = op }

\* The made of setup that failed.
FailedSetupCalls(made) ==
    { i \in 1..Len(made) : made[i].op \in {"set_config", "set_ip_address"} /\ made[i].res = "Err" }

\* The step is a NetlinkTunnel::new that created a device.
NewCreated == next_ifindex' # next_ifindex

\* The step is a stop of the NetlinkTunnel.
Stopped == netlink_tunnel # 0 /\ netlink_tunnel' = 0

\* new failed after creating the device: one deletion of that device is
\* attempted, after the failed call, the error returned is that call's, no
\* NetlinkTunnel exists, and the device is gone if the deletion succeeded.
FailedNewCleansUp ==
    LET made == netlink_last'.calls
        last == made[Len(made)]
    IN  /\ Cardinality(CallsOf(made, "delete_device")) = 1
        /\ last.op = "delete_device" /\ last.arg = next_ifindex
        /\ \E i \in FailedSetupCalls(made) :
              /\ FailedSetupCalls(made) = {i}
              /\ i = Len(made) - 1
              /\ netlink_last'.result = NetlinkErr(made[i].op, made[i].arg)
        /\ netlink_tunnel' = 0
        /\ devices' = IF last.res = "Ok" THEN devices ELSE devices \cup {next_ifindex}

\* new succeeded: the device it created is the one device added, nothing was
\* deleted, and the NetlinkTunnel holds its index.
NewKeepsOneDevice ==
    /\ next_ifindex \notin devices
    /\ devices' = devices \cup {next_ifindex}
    /\ CallsOf(netlink_last'.calls, "delete_device") = {}
    /\ FailedSetupCalls(netlink_last'.calls) = {}
    /\ netlink_tunnel' = next_ifindex

\* stop attempts the deletion of the tunnel's device once; the device is gone
\* and Ok returned, or FatalStartWireguardError is returned.
StopDeletes ==
    LET made == netlink_last'.calls IN
    /\ Len(made) = 1
    /\ made[1].op = "delete_device" /\ made[1].arg = netlink_tunnel
    /\ made[1].res = "Ok" => netlink_last'.result.ok /\ devices' = devices \ {netlink_tunnel}
    /\ made[1].res = "Err" =>
          /\ netlink_last'.result = NetlinkErr("FatalStartWireguardError", netlink_tunnel)
          /\ devices' = devices

\* C40: when NetlinkTunnel::new fails in setting the configuration or a
\* tunnel address, after the device was created, it attempts the deletion of
\* that device exactly once and returns the error of the setup, also when the
\* deletion fails; when new succeeds exactly the one device it created is
\* added, and stop deletes it, returning FatalStartWireguardError when the
\* deletion fails.
C40_NewCleansUpAfterFailure ==
    [][/\ NewCreated /\ ~netlink_last'.result.ok => FailedNewCleansUp
       /\ NewCreated /\ netlink_last'.result.ok => NewKeepsOneDevice
       /\ Stopped => StopDeletes]_netlink_vars

C40_Witness ==
    /\ netlink_last.op = "new"
    /\ netlink_last.result = NetlinkErr("set_ip_address", 2)
    /\ netlink_last.calls[Len(netlink_last.calls)] = NetlinkCall("delete_device", 1, "Err")
    /\ devices = {1}
    /\ netlink_tunnel = 0

====
